---------------------------- MODULE Spec2Model ----------------------------
(***************************************************************************)
(* Model of the decision orchestration core of llm-decision-flow:          *)
(* DecisionOrchestrator.analyze, its decision matrix and escalation rules, *)
(* the agents it sequences and the configuration store it reads.           *)
(*                                                                         *)
(* Conventions.  Confidences, similarities and thresholds are floats in    *)
(* [0,1] in the source; here they are integers in hundredths (0.6 is 60).  *)
(* A Python Optional is a tuple: None is <<>> and a present value v is     *)
(* <<v>>.  A formatted text is a record of its template and the number     *)
(* interpolated into it.                                                   *)
(***************************************************************************)
EXTENDS Integers, Sequences, FiniteSets, TLC

None == <<>>
Some(v) == <<v>>

\* ------------------------------------------------------------------------
\* Enumerations (src/models/schemas.py)
\* ------------------------------------------------------------------------

RiskTier == {"Low", "Medium", "High"}

ViolationStatus == {"Yes", "No", "Contextual"}

DecisionAction ==
    {"Allow", "Label / Downrank", "Escalate to Human", "Human Confirmation"}

\* ------------------------------------------------------------------------
\* Settings (src/config.py) and the configuration store
\* ------------------------------------------------------------------------

claim_confidence_threshold == 65
risk_confidence_threshold == 60
policy_confidence_threshold == 70
novelty_similarity_threshold == 35
evidence_similarity_cutoff == 40

DEFAULT_THRESHOLDS ==
    [claim_confidence_threshold |-> claim_confidence_threshold,
     risk_confidence_threshold |-> risk_confidence_threshold,
     policy_confidence_threshold |-> policy_confidence_threshold,
     novelty_similarity_threshold |-> novelty_similarity_threshold,
     evidence_similarity_cutoff |-> evidence_similarity_cutoff]

\* versions: the SystemConfigVersion table in creation order; a row is
\* [active, threshold_updates].  The active version is the newest active row.
get_active_config_version(versions) ==
    LET act == {i \in 1..Len(versions) : versions[i].active}
    IN  IF act = {} THEN None
        ELSE Some(versions[CHOOSE i \in act : \A j \in act : j <= i])

get_threshold_overrides(versions) ==
    LET v == get_active_config_version(versions)
    IN  IF v = None THEN <<>> ELSE v[1].threshold_updates

get_thresholds_with_overrides(versions) ==
    LET overrides == get_threshold_overrides(versions)
    IN  [k \in DOMAIN DEFAULT_THRESHOLDS |->
            IF k \in DOMAIN overrides THEN overrides[k] ELSE DEFAULT_THRESHOLDS[k]]

get_threshold_value(versions, name, default) ==
    LET thresholds == get_thresholds_with_overrides(versions)
    IN  IF name \in DOMAIN thresholds THEN thresholds[name] ELSE default

\* The ids of the rows of a table: rows are kept in id order.
Ids(rows) == 1..Len(rows)

\* Variant: the other versions keep their active flag.
activate_config_version_keepothers(versions, version_id) ==
    IF version_id \notin Ids(versions)
    THEN [returned |-> FALSE, versions |-> versions]
    ELSE [returned |-> TRUE,
          versions |-> [versions EXCEPT ![version_id].active = TRUE]]

activate_config_version(versions, version_id) ==
    IF version_id \notin Ids(versions)
    THEN [returned |-> FALSE, versions |-> versions]
    ELSE [returned |-> TRUE,
          versions |-> [i \in Ids(versions) |->
                           [versions[i] EXCEPT !.active = (i = version_id)]]]

create_config_version(versions, threshold_updates, activate) ==
    LET added == Append(versions, [active |-> FALSE,
                                   threshold_updates |-> threshold_updates])
        version_id == Len(added)
    IN  [returned |-> version_id,
         versions |-> IF activate
                      THEN activate_config_version(added, version_id).versions
                      ELSE added]

has_meaningful_updates(change) ==
    \/ DOMAIN change.threshold_updates # {}
    \/ change.rationale # ""

\* The version an existing table shows as activated last.
InitiallyActivated(versions) ==
    LET act == {i \in Ids(versions) : versions[i].active}
    IN  IF act = {} THEN None ELSE Some(CHOOSE i \in act : \A j \in act : j <= i)

\* ------------------------------------------------------------------------
\* Governance log (src/governance/logger.py, src/models/database.py)
\* ------------------------------------------------------------------------

DecisionRecord(requires_human_review) ==
    [requires_human_review |-> requires_human_review]

ReviewRecord(decision_id, status, manual_override, human_decision_action) ==
    [decision_id |-> decision_id, status |-> status,
     manual_override |-> manual_override,
     human_decision_action |-> human_decision_action]

\* decision_record.review: the review row of a decision, if any.
ReviewOf(review_records, decision_id) ==
    LET ids == {i \in Ids(review_records) : review_records[i].decision_id = decision_id}
    IN  IF ids = {} THEN None ELSE Some(CHOOSE i \in ids : \A j \in ids : i <= j)

log_decision(decision_records, review_records, requires_human_review) ==
    LET decision_id == Len(decision_records) + 1
    IN  [returned |-> decision_id,
         decision_records |-> Append(decision_records,
                                     DecisionRecord(requires_human_review)),
         review_records |->
             IF requires_human_review
             THEN Append(review_records,
                         ReviewRecord(decision_id, "pending", FALSE, None))
             ELSE review_records]

\* The ids of the pending reviews, in the order of the table.
list_pending_reviews(review_records) ==
    SelectSeq([i \in Ids(review_records) |-> i],
              LAMBDA i : review_records[i].status = "pending")

\* Variant: a reviewed decision gets a second review row.
enqueue_review_for_decision_newrow(decision_records, review_records, decision_id) ==
    IF decision_id \notin Ids(decision_records)
    THEN [returned |-> "not_found", decision_records |-> decision_records,
          review_records |-> review_records]
    ELSE LET review == ReviewOf(review_records, decision_id)
             required == [decision_records EXCEPT
                              ![decision_id].requires_human_review = TRUE]
         IN  IF review = None \/ review_records[review[1]].status = "reviewed"
             THEN [returned |-> "created", decision_records |-> required,
                   review_records |->
                       Append(review_records,
                              ReviewRecord(decision_id, "pending", TRUE, None))]
             ELSE [returned |-> "already_pending",
                   decision_records |-> decision_records,
                   review_records |-> review_records]

enqueue_review_for_decision(decision_records, review_records, decision_id) ==
    IF decision_id \notin Ids(decision_records)
    THEN [returned |-> "not_found", decision_records |-> decision_records,
          review_records |-> review_records]
    ELSE LET review == ReviewOf(review_records, decision_id)
             required == [decision_records EXCEPT
                              ![decision_id].requires_human_review = TRUE]
         IN  IF review = None
             THEN [returned |-> "created", decision_records |-> required,
                   review_records |->
                       Append(review_records,
                              ReviewRecord(decision_id, "pending", TRUE, None))]
             ELSE IF review_records[review[1]].status = "pending"
             THEN [returned |-> "already_pending",
                   decision_records |-> decision_records,
                   review_records |-> review_records]
             ELSE IF review_records[review[1]].status = "reviewed"
             THEN [returned |-> "reset_pending", decision_records |-> required,
                   review_records |->
                       [review_records EXCEPT
                            ![review[1]] = ReviewRecord(decision_id, "pending", TRUE,
                                                        None)]]
             ELSE [returned |-> "not_found", decision_records |-> decision_records,
                   review_records |-> review_records]

submit_human_decision(review_records, versions, review_id, human_decision_action, accepted_change) ==
    IF review_id \notin Ids(review_records)
    THEN [returned |-> FALSE, review_records |-> review_records, versions |-> versions]
    ELSE [returned |-> TRUE,
          review_records |->
              [review_records EXCEPT
                   ![review_id].human_decision_action = Some(human_decision_action),
                   ![review_id].status = "reviewed"],
          versions |->
              IF accepted_change # None /\ has_meaningful_updates(accepted_change[1])
              THEN create_config_version(versions,
                                         accepted_change[1].threshold_updates,
                                         TRUE).versions
              ELSE versions]

reset_review_to_pending(review_records, review_id, clear_human_decision) ==
    IF review_id \notin Ids(review_records)
    THEN [returned |-> FALSE, review_records |-> review_records]
    ELSE [returned |-> TRUE,
          review_records |->
              [review_records EXCEPT
                   ![review_id].status = "pending",
                   ![review_id].human_decision_action =
                       IF clear_human_decision THEN None ELSE @]]

\* ------------------------------------------------------------------------
\* Decision matrix and escalation rules (decision_orchestrator.py)
\* ------------------------------------------------------------------------

Rationale(template, policy_confidence) ==
    [template |-> template, policy_confidence |-> policy_confidence]

\* Variant: the Medium boundary compared with > instead of >=.
MatrixAction_strict(risk_tier, policy_confidence) ==
    IF risk_tier = "Low"
    THEN IF policy_confidence >= 70 THEN "Allow" ELSE "Label / Downrank"
    ELSE IF risk_tier = "Medium"
    THEN IF policy_confidence > 60 THEN "Label / Downrank" ELSE "Escalate to Human"
    ELSE IF policy_confidence < 60 THEN "Escalate to Human" ELSE "Human Confirmation"

MatrixAction(risk_tier, policy_confidence) ==
    IF risk_tier = "Low"
    THEN IF policy_confidence >= 70 THEN "Allow" ELSE "Label / Downrank"
    ELSE IF risk_tier = "Medium"
    THEN IF policy_confidence >= 60 THEN "Label / Downrank" ELSE "Escalate to Human"
    ELSE IF policy_confidence < 60 THEN "Escalate to Human" ELSE "Human Confirmation"

MatrixTemplate(risk_tier, policy_confidence) ==
    IF risk_tier = "Low"
    THEN IF policy_confidence >= 70
         THEN "Low risk content with high policy confidence"
         ELSE "Low risk content but uncertain policy interpretation"
    ELSE IF risk_tier = "Medium"
    THEN IF policy_confidence >= 60
         THEN "Medium risk content with moderate policy confidence"
         ELSE "Medium risk content with low policy confidence"
    ELSE IF policy_confidence < 60
         THEN "High risk content with low policy confidence"
         ELSE "High risk content with high policy confidence"

\* Variant: only the actions that need a reviewer get an escalation reason.
_make_decision_reviewreason(risk_assessment, policy_interpretation, evidence) ==
    IF policy_interpretation = None
    THEN [action |-> "Escalate to Human",
          rationale |-> Rationale("Unable to interpret policy - requires human review", 0),
          requires_human_review |-> TRUE,
          confidence |-> 0,
          escalation_reason |-> Some(Rationale("Policy interpretation unavailable", 0))]
    ELSE LET policy_confidence == policy_interpretation[1].policy_confidence
             action == MatrixAction(risk_assessment.tier, policy_confidence)
             rationale == Rationale(MatrixTemplate(risk_assessment.tier, policy_confidence),
                                    policy_confidence)
             review == action \in {"Escalate to Human", "Human Confirmation"}
         IN  [action |-> action,
              rationale |-> rationale,
              requires_human_review |-> review,
              confidence |-> policy_confidence,
              escalation_reason |-> IF review THEN Some(rationale) ELSE None]

\* Variant: a missing interpretation is read as policy confidence 0 and sent
\* through the matrix.
_make_decision_lenient(risk_assessment, policy_interpretation, evidence) ==
    LET policy_confidence == IF policy_interpretation = None THEN 0
                             ELSE policy_interpretation[1].policy_confidence
        action == MatrixAction(risk_assessment.tier, policy_confidence)
        rationale == Rationale(MatrixTemplate(risk_assessment.tier, policy_confidence),
                               policy_confidence)
    IN  [action |-> action,
         rationale |-> rationale,
         requires_human_review |->
             (action \in {"Escalate to Human", "Human Confirmation"}),
         confidence |-> policy_confidence,
         escalation_reason |-> IF action = "Allow" THEN None ELSE Some(rationale)]

_make_decision(risk_assessment, policy_interpretation, evidence) ==
    IF policy_interpretation = None
    THEN [action |-> "Escalate to Human",
          rationale |-> Rationale("Unable to interpret policy - requires human review", 0),
          requires_human_review |-> TRUE,
          confidence |-> 0,
          escalation_reason |-> Some(Rationale("Policy interpretation unavailable", 0))]
    ELSE LET policy_confidence == policy_interpretation[1].policy_confidence
             action == MatrixAction(risk_assessment.tier, policy_confidence)
             rationale == Rationale(MatrixTemplate(risk_assessment.tier, policy_confidence),
                                    policy_confidence)
         IN  [action |-> action,
              rationale |-> rationale,
              requires_human_review |->
                  (action \in {"Escalate to Human", "Human Confirmation"}),
              confidence |-> policy_confidence,
              escalation_reason |-> IF action = "Allow" THEN None ELSE Some(rationale)]

\* Variant: conflicting evidence asks for a review whatever the tier.
_requires_human_review_anytier(versions, risk_assessment, policy_interpretation, evidence, decision, claim_confidence) ==
    \/ decision.requires_human_review
    \/ /\ evidence # None
       /\ evidence[1].conflicts_present
    \/ /\ risk_assessment.tier \in {"Medium", "High"}
       /\ claim_confidence <
            get_threshold_value(versions, "claim_confidence_threshold",
                                claim_confidence_threshold)
    \/ /\ risk_assessment.tier \in {"Medium", "High"}
       /\ risk_assessment.confidence <
            get_threshold_value(versions, "risk_confidence_threshold",
                                risk_confidence_threshold)
    \/ /\ risk_assessment.tier = "High"
       /\ policy_interpretation # None
       /\ policy_interpretation[1].policy_confidence <
            get_threshold_value(versions, "policy_confidence_threshold",
                                policy_confidence_threshold)
    \/ /\ risk_assessment.tier \in {"Medium", "High"}
       /\ policy_interpretation # None
       /\ policy_interpretation[1].conflict_detected

\* Variant: the claim-confidence gate is missing.
_requires_human_review_noclaimgate(versions, risk_assessment, policy_interpretation, evidence, decision, claim_confidence) ==
    \/ decision.requires_human_review
    \/ /\ evidence # None
       /\ evidence[1].conflicts_present
       /\ risk_assessment.tier \in {"Medium", "High"}
    \/ /\ risk_assessment.tier \in {"Medium", "High"}
       /\ risk_assessment.confidence <
            get_threshold_value(versions, "risk_confidence_threshold",
                                risk_confidence_threshold)
    \/ /\ risk_assessment.tier = "High"
       /\ policy_interpretation # None
       /\ policy_interpretation[1].policy_confidence <
            get_threshold_value(versions, "policy_confidence_threshold",
                                policy_confidence_threshold)
    \/ /\ risk_assessment.tier \in {"Medium", "High"}
       /\ policy_interpretation # None
       /\ policy_interpretation[1].conflict_detected

\* Variant: the matrix's own verdict is not carried over; only the gates decide.
_requires_human_review_gatesonly(versions, risk_assessment, policy_interpretation, evidence, decision, claim_confidence) ==
    \/ /\ evidence # None
       /\ evidence[1].conflicts_present
       /\ risk_assessment.tier \in {"Medium", "High"}
    \/ /\ risk_assessment.tier \in {"Medium", "High"}
       /\ claim_confidence <
            get_threshold_value(versions, "claim_confidence_threshold",
                                claim_confidence_threshold)
    \/ /\ risk_assessment.tier \in {"Medium", "High"}
       /\ risk_assessment.confidence <
            get_threshold_value(versions, "risk_confidence_threshold",
                                risk_confidence_threshold)
    \/ /\ risk_assessment.tier = "High"
       /\ policy_interpretation # None
       /\ policy_interpretation[1].policy_confidence <
            get_threshold_value(versions, "policy_confidence_threshold",
                                policy_confidence_threshold)
    \/ /\ risk_assessment.tier \in {"Medium", "High"}
       /\ policy_interpretation # None
       /\ policy_interpretation[1].conflict_detected

_requires_human_review(versions, risk_assessment, policy_interpretation, evidence, decision, claim_confidence) ==
    IF decision.requires_human_review THEN TRUE
    ELSE IF /\ evidence # None
            /\ evidence[1].conflicts_present
            /\ risk_assessment.tier \in {"Medium", "High"} THEN TRUE
    ELSE IF /\ risk_assessment.tier \in {"Medium", "High"}
            /\ claim_confidence <
                 get_threshold_value(versions, "claim_confidence_threshold",
                                     claim_confidence_threshold) THEN TRUE
    ELSE IF /\ risk_assessment.tier \in {"Medium", "High"}
            /\ risk_assessment.confidence <
                 get_threshold_value(versions, "risk_confidence_threshold",
                                     risk_confidence_threshold) THEN TRUE
    ELSE IF /\ risk_assessment.tier = "High"
            /\ policy_interpretation # None
            /\ policy_interpretation[1].policy_confidence <
                 get_threshold_value(versions, "policy_confidence_threshold",
                                     policy_confidence_threshold) THEN TRUE
    ELSE IF /\ risk_assessment.tier \in {"Medium", "High"}
            /\ policy_interpretation # None
            /\ policy_interpretation[1].conflict_detected THEN TRUE
    ELSE FALSE

\* ------------------------------------------------------------------------
\* Bounds and sampled inputs
\* ------------------------------------------------------------------------

MaxClaims == 1

Min(a, b) == IF a < b THEN a ELSE b
Max(a, b) == IF a > b THEN a ELSE b
Take(s, n) == SubSeq(s, 1, Min(n, Len(s)))

RECURSIVE SumConfidence(_)
SumConfidence(s) ==
    IF s = <<>> THEN 0 ELSE s[1].confidence + SumConfidence(Tail(s))

SeqsUpTo(S, n) == UNION {[1..k -> S] : k \in 0..n}

ClaimConfidenceSamples == {50, 90}
RiskConfidenceSamples == {40, 55, 80}
PolicyConfidenceSamples == {50, 80}

\* A claim is its text (here its position in the extracted list) and its
\* extraction confidence.
ClaimLists ==
    {[i \in 1..Len(c) |-> [text |-> i, confidence |-> c[i]]] :
        c \in SeqsUpTo(ClaimConfidenceSamples, MaxClaims)}

\* ------------------------------------------------------------------------
\* AgentExecutionDetail (src/models/schemas.py)
\* ------------------------------------------------------------------------

\* user_prompt is kept for the details whose prompt is a fixed note; a prompt
\* rendered from the inputs is "prompt".
AgentExecutionDetail(agent_type, user_prompt, status, confidence, route_reason, fallback_used, error) ==
    [agent_type |-> agent_type, user_prompt |-> user_prompt, status |-> status,
     confidence |-> confidence, route_reason |-> route_reason,
     fallback_used |-> fallback_used, error |-> error]

\* What an agent's process() gives back: it raised, or a value with its audit
\* detail; trace lists the model calls it made, in order.
Raised(trace) == [raised |-> TRUE, trace |-> trace]
Returned(value, detail, trace) ==
    [raised |-> FALSE, value |-> value, detail |-> detail, trace |-> trace]

\* ------------------------------------------------------------------------
\* ClaimAgent (src/agents/claim_agent.py)
\* ------------------------------------------------------------------------

\* One LLM completion asked for claims: the call raised, or it returned text
\* that parses into a claim list or does not.
ClaimCompletions ==
    {[status |-> "raise", claims |-> <<>>], [status |-> "unparseable", claims |-> <<>>]} \cup
    {[status |-> "ok", claims |-> cl] : cl \in ClaimLists}

_aggregate_claim_confidence(claims) ==
    IF claims = <<>> THEN 0 ELSE SumConfidence(claims) \div Len(claims)

ClaimAgent_process(groq_api_key, groq, azure) ==
    LET use_groq == groq_api_key /\ groq.status # "raise"
        content == IF use_groq THEN groq ELSE azure
        trace == (IF groq_api_key THEN <<"groq.chat">> ELSE <<>>) \o
                 (IF use_groq THEN <<>> ELSE <<"azure.chat">>)
    IN  IF content.status # "ok" THEN Raised(trace)
        ELSE Returned(content.claims,
                      AgentExecutionDetail("claim", "prompt", "completed",
                          Some(_aggregate_claim_confidence(content.claims)),
                          None, FALSE, None),
                      trace)

\* ------------------------------------------------------------------------
\* RiskAgent (src/agents/risk_agent.py)
\* ------------------------------------------------------------------------

\* A label is modelled by the set of keywords its lower-cased text contains;
\* a missing, empty or unrecognised label contains none.
_map_label_to_risk_tier(label) ==
    IF "high" \in label THEN Some("High")
    ELSE IF "medium" \in label THEN Some("Medium")
    ELSE IF "low" \in label THEN Some("Low")
    ELSE None

RiskLabelSamples == {{}, {"high"}, {"medium"}, {"low"}, {"low", "high"}}

ZentropiRiskResults ==
    {[status |-> "raise", label |-> {}, confidence |-> 0]} \cup
    {[status |-> "ok", label |-> l, confidence |-> c] :
        l \in RiskLabelSamples, c \in RiskConfidenceSamples}

FrontierRiskResults ==
    {[status |-> "raise", tier |-> "Low", confidence |-> 0]} \cup
    {[status |-> "ok", tier |-> t, confidence |-> c] :
        t \in RiskTier, c \in RiskConfidenceSamples}

\* Variant: only a missing primary result sends the agent to the frontier model.
RiskFallbackGate_absentonly(slm_result) ==
    slm_result = None

\* The fallback test of risk_agent.py line 93.
RiskFallbackGate(slm_result) ==
    \/ slm_result = None
    \/ slm_result[1].confidence < risk_confidence_threshold

RiskAgent_process(zentropi_configured, slm, frontier) ==
    LET slm_tier == IF zentropi_configured /\ slm.status = "ok"
                    THEN _map_label_to_risk_tier(slm.label) ELSE None
        slm_result == IF slm_tier = None THEN None
                      ELSE Some([tier |-> slm_tier[1], confidence |-> slm.confidence,
                                 route_reason |-> "slm_primary", model_used |-> "zentropi"])
        fallback_used == RiskFallbackGate(slm_result)
        response == IF fallback_used
                    THEN [tier |-> frontier.tier, confidence |-> frontier.confidence,
                          route_reason |-> "fallback_frontier",
                          model_used |-> "azure_openai"]
                    ELSE slm_result[1]
        trace == (IF zentropi_configured THEN <<"zentropi.label">> ELSE <<>>) \o
                 (IF fallback_used THEN <<"frontier.chat">> ELSE <<>>)
    IN  IF fallback_used /\ frontier.status = "raise" THEN Raised(trace)
        ELSE Returned(response,
                      AgentExecutionDetail("risk", "prompt", "completed", Some(response.confidence),
                          Some(response.route_reason), fallback_used, None),
                      trace)

\* ------------------------------------------------------------------------
\* PolicyAgent (src/agents/policy_agent.py)
\* ------------------------------------------------------------------------

\* Variant: a label with no known keyword is read as "No".
_map_label_to_violation_default(label) ==
    IF "context" \in label THEN Some("Contextual")
    ELSE IF "yes" \in label \/ "violate" \in label THEN Some("Yes")
    ELSE Some("No")

_map_label_to_violation(label) ==
    IF "context" \in label THEN Some("Contextual")
    ELSE IF "yes" \in label \/ "violate" \in label THEN Some("Yes")
    ELSE IF "no" \in label THEN Some("No")
    ELSE None

\* Variant: the value the model reported is kept.
_detect_conflict_reported(result) ==
    result.conflict_detected

_detect_conflict(result) ==
    result.violation = "Yes" /\ result.allowed_contexts # <<>>

PolicyLabelSamples == {{}, {"yes"}, {"context", "no"}}

ZentropiPolicyResults ==
    {[status |-> "raise", label |-> {}, confidence |-> 0]} \cup
    {[status |-> "ok", label |-> l, confidence |-> c] :
        l \in PolicyLabelSamples, c \in PolicyConfidenceSamples}

FrontierPolicyResults ==
    {[status |-> "raise", violation |-> "No", policy_confidence |-> 0,
      allowed_contexts |-> <<>>, conflict_detected |-> FALSE]} \cup
    {[status |-> "ok", violation |-> v.violation, policy_confidence |-> c,
      allowed_contexts |-> v.allowed_contexts, conflict_detected |-> d] :
        v \in {[violation |-> "Yes", allowed_contexts |-> <<"satire">>],
               [violation |-> "No", allowed_contexts |-> <<>>]},
        c \in PolicyConfidenceSamples, d \in BOOLEAN}

\* Frontier answers whose reported conflict_detected disagrees with their
\* violation and allowed_contexts.
FrontierPolicyEdgeResults ==
    {[status |-> "ok", violation |-> v.violation, policy_confidence |-> 80,
      allowed_contexts |-> v.allowed_contexts, conflict_detected |-> TRUE] :
        v \in {[violation |-> "Yes", allowed_contexts |-> <<>>],
               [violation |-> "Contextual", allowed_contexts |-> <<"satire">>]}}

\* The fallback test of policy_agent.py line 150.
PolicyFallbackGate(slm_result) ==
    \/ slm_result = None
    \/ slm_result[1].policy_confidence < policy_confidence_threshold

PolicyAgent_process(zentropi_configured, slm, frontier) ==
    LET violation == IF zentropi_configured /\ slm.status = "ok"
                     THEN _map_label_to_violation(slm.label) ELSE None
        slm_result == IF violation = None THEN None
                      ELSE Some([violation |-> violation[1],
                                 policy_confidence |-> slm.confidence,
                                 allowed_contexts |-> <<>>,
                                 conflict_detected |-> FALSE,
                                 model_used |-> "zentropi",
                                 route_reason |-> "slm_primary"])
        slm_error == IF ~zentropi_configured THEN None
                     ELSE IF slm.status = "raise" THEN Some("Zentropi call failed")
                     ELSE IF violation = None THEN Some("Zentropi label unmapped")
                     ELSE None
        fallback_used == PolicyFallbackGate(slm_result)
        response == IF fallback_used
                    THEN [violation |-> frontier.violation,
                          policy_confidence |-> frontier.policy_confidence,
                          allowed_contexts |-> frontier.allowed_contexts,
                          conflict_detected |-> frontier.conflict_detected,
                          model_used |-> "azure_openai",
                          route_reason |-> "fallback_frontier"]
                    ELSE slm_result[1]
        checked == [response EXCEPT !.conflict_detected = _detect_conflict(response)]
        trace == (IF zentropi_configured THEN <<"zentropi.label">> ELSE <<>>) \o
                 (IF fallback_used THEN <<"frontier.chat">> ELSE <<>>)
    IN  IF fallback_used /\ frontier.status = "raise" THEN Raised(trace)
        ELSE Returned(checked,
                      AgentExecutionDetail("policy", "prompt", "completed",
                          Some(checked.policy_confidence), Some(checked.route_reason),
                          fallback_used, slm_error),
                      trace)

\* ------------------------------------------------------------------------
\* Evidence retrieval (src/rag/evidence_retriever.py, src/agents/evidence_agent.py)
\* ------------------------------------------------------------------------

NoSourceType == "unknown"

SourceType ==
    {"authoritative", "high_credibility", "scientific", "fact_check", "internal",
     "external"}

DEFAULT_WEIGHTINGS ==
    [authoritative |-> 120, high_credibility |-> 110, scientific |-> 115,
     fact_check |-> 115, internal |-> 100, external |-> 90]

EvidenceItem(text, source_type, relevance_score) ==
    [text |-> text, source_type |-> source_type, relevance_score |-> relevance_score]

Evidence(supporting, contradicting, contextual, evidence_confidence, conflicts_present, evidence_gap, evidence_gap_reason) ==
    [supporting |-> supporting, contradicting |-> contradicting,
     contextual |-> contextual, evidence_confidence |-> evidence_confidence,
     conflicts_present |-> conflicts_present, evidence_gap |-> evidence_gap,
     evidence_gap_reason |-> evidence_gap_reason]

\* A raw vector-store hit: its distance to the query and the source type that
\* _infer_source_type derives from its metadata.
Hit(distance, source_type) == [distance |-> distance, source_type |-> source_type]

\* The hit lists the searches of one retrieval may give, all claims together.
HitLists ==
    {<<>>,
     <<Hit(10, "internal")>>,
     <<Hit(50, "internal")>>,
     <<Hit(70, "internal")>>,
     <<Hit(10, NoSourceType)>>,
     <<Hit(10, "internal"), Hit(50, "internal")>>}

VectorSearches ==
    {[status |-> "raise", hits |-> <<>>]} \cup
    {[status |-> "ok", hits |-> h] : h \in HitLists}

WeightedScore(hit) ==
    LET relevance_score == 100 - hit.distance
        weight_key == IF hit.source_type = NoSourceType THEN "external"
                      ELSE hit.source_type
    IN  Min((relevance_score * DEFAULT_WEIGHTINGS[weight_key]) \div 100, 100)

retrieve_evidence(versions, hits) ==
    LET cutoff == get_threshold_value(versions, "evidence_similarity_cutoff",
                                      evidence_similarity_cutoff)
        kept == SelectSeq(hits, LAMBDA h : WeightedScore(h) >= cutoff)
        item(h) == EvidenceItem("kb", h.source_type, WeightedScore(h))
        near == SelectSeq(kept, LAMBDA h : h.distance < 30)
        far == SelectSeq(kept, LAMBDA h : ~(h.distance < 30))
        all_supporting == [i \in 1..Len(near) |-> item(near[i])]
        all_contradicting == [i \in 1..Len(far) |-> item(far[i])]
        credible_items ==
            Len(SelectSeq(kept, LAMBDA h : h.source_type \notin {NoSourceType, "external"}))
        total_items == Len(all_supporting) + Len(all_contradicting)
        evidence_confidence ==
            IF total_items = 0 THEN 0 ELSE (Len(all_supporting) * 80) \div total_items
    IN  Evidence(Take(all_supporting, 10), Take(all_contradicting, 10), <<>>,
                 evidence_confidence,
                 Len(all_contradicting) > 0,
                 total_items = 0 \/ credible_items = 0,
                 IF total_items = 0 THEN Some(<<"No matching internal evidence found.">>)
                 ELSE IF credible_items = 0
                 THEN Some(<<"No evidence met the credibility threshold.">>)
                 ELSE None)

\* Variant: the retrieval runs for an empty claim list too.
EvidenceAgent_process_alwayssearch(versions, claims, search) ==
    IF search.status = "raise" THEN Raised(<<"vector_store.search">>)
    ELSE LET evidence == retrieve_evidence(versions, IF claims = <<>> THEN <<>> ELSE search.hits)
         IN  Returned(evidence,
                      AgentExecutionDetail("evidence",
                          "Retrieve evidence for extracted claims.", "completed",
                          Some(evidence.evidence_confidence), Some("rag_retrieval"),
                          FALSE, None),
                      <<"vector_store.search">>)

EvidenceAgent_process(versions, claims, search) ==
    IF claims = <<>>
    THEN Returned(Evidence(<<>>, <<>>, <<>>, 0, FALSE, FALSE, None),
                  AgentExecutionDetail("evidence", "No claims provided; skipping retrieval.",
                                       "skipped", Some(0), Some("no_claims"), FALSE, None),
                  <<>>)
    ELSE IF search.status = "raise" THEN Raised(<<"vector_store.search">>)
    ELSE LET evidence == retrieve_evidence(versions, search.hits)
         IN  Returned(evidence,
                      AgentExecutionDetail("evidence",
                          "Retrieve evidence for extracted claims.", "completed",
                          Some(evidence.evidence_confidence), Some("rag_retrieval"),
                          FALSE, None),
                      <<"vector_store.search">>)

\* ------------------------------------------------------------------------
\* FactualityAgent (src/agents/factuality_agent.py)
\* ------------------------------------------------------------------------

FactualityAssessment(claim_text, status, confidence) ==
    [claim_text |-> claim_text, status |-> status, confidence |-> confidence]

\* What the frontier model may answer for a claim list: it raised, or it gave
\* a list of assessments (possibly not one per claim).
FactualityCompletions(claims) ==
    {[status |-> "raise", assessments |-> <<>>],
     [status |-> "ok", assessments |-> <<>>],
     [status |-> "ok",
      assessments |-> [i \in 1..Len(claims) |->
                          FactualityAssessment(claims[i].text, "Likely False", 80)]]}

_aggregate_confidence(assessments) ==
    IF assessments = <<>> THEN 0 ELSE SumConfidence(assessments) \div Len(assessments)

\* Variant: an evidence gap does not stop the assessment.
InsufficientEvidence_nogap(evidence) ==
    \/ evidence = None
    \/ (evidence[1].supporting = <<>> /\ evidence[1].contradicting = <<>>)

InsufficientEvidence(evidence) ==
    \/ evidence = None
    \/ evidence[1].evidence_gap
    \/ (evidence[1].supporting = <<>> /\ evidence[1].contradicting = <<>>)

FactualityAgent_process(claims, evidence, llm) ==
    IF InsufficientEvidence(evidence)
    THEN LET assessments ==
                 [i \in 1..Len(claims) |->
                     FactualityAssessment(claims[i].text, "Uncertain / Disputed", 0)]
         IN  Returned(assessments,
                      AgentExecutionDetail("factuality",
                          "Insufficient evidence; returning conservative assessments.",
                          "completed", Some(_aggregate_confidence(assessments)),
                          Some("insufficient_evidence"), FALSE, None),
                      <<>>)
    ELSE IF llm.status = "raise" THEN Raised(<<"frontier.chat">>)
    ELSE Returned(llm.assessments,
                  AgentExecutionDetail("factuality", "prompt", "completed",
                      Some(_aggregate_confidence(llm.assessments)),
                      Some("frontier_primary"), FALSE, None),
                  <<"frontier.chat">>)

\* ------------------------------------------------------------------------
\* Novelty and external enrichment (decision_orchestrator.py)
\* ------------------------------------------------------------------------

SimilaritySamples == {20, 90}

\* The similarity lookups of one run: a call raised, or each claim got a score
\* (None when the store has no match for it in the active index version).
SimilarityLookups(claims) ==
    {[status |-> "raise", scores |-> <<>>]} \cup
    {[status |-> "ok", scores |-> sc] :
        sc \in [1..Len(claims) -> {None} \cup {Some(v) : v \in SimilaritySamples}]}

RECURSIVE MaxScore(_)
MaxScore(scores) ==
    IF scores = <<>> THEN 0
    ELSE IF scores[1] = None THEN MaxScore(Tail(scores))
    ELSE Max(scores[1][1], MaxScore(Tail(scores)))

\* [raised, value]; index is the evidence collection (its documents, in order).
_max_claim_similarity(claims, index, lookup) ==
    IF claims = <<>> THEN [raised |-> FALSE, value |-> 0]
    ELSE IF lookup.status = "raise" THEN [raised |-> TRUE, value |-> 0]
    ELSE IF index = <<>> THEN [raised |-> FALSE, value |-> 0]
    ELSE [raised |-> FALSE, value |-> MaxScore(lookup.scores)]

\* The classifier's answer for one snippet: the call (or the client's
\* construction) raised, or the answer contains some of the keywords.
ClassifierAnswers ==
    {[status |-> "raise", words |-> {}]} \cup
    {[status |-> "ok", words |-> w] :
        w \in {{}, {"support"}, {"contradict"}, {"support", "contradict"}}}

\* Variant: a failed classification files the snippet as contradicting.
_classify_external_evidence_failcontra(answer) ==
    IF answer.status = "raise" THEN "contradicting"
    ELSE IF "support" \in answer.words THEN "supporting"
    ELSE "contradicting"

_classify_external_evidence(answer) ==
    IF answer.status = "raise" THEN "contextual"
    ELSE IF "support" \in answer.words THEN "supporting"
    ELSE IF "contradict" \in answer.words THEN "contradicting"
    ELSE "contextual"

\* One external search result together with the classifier's answer for it.
ExternalResult(source_type, status, words) ==
    [source_type |-> source_type, answer |-> [status |-> status, words |-> words]]

\* The result lists the searches of one enrichment may give, all claims together.
ExternalResultLists ==
    {<<>>,
     <<ExternalResult("high_credibility", "ok", {"support"})>>,
     <<ExternalResult("external", "ok", {"contradict"})>>,
     <<ExternalResult("external", "raise", {})>>,
     <<ExternalResult("external", "ok", {"support", "contradict"}),
       ExternalResult("high_credibility", "ok", {"contradict"})>>}

\* The outside world of one enrichment call: the search switch, whether a
\* search request raised, the results of the searches for the first three
\* claims, the enrichment switch and what add_documents does when called.
ExternalWorld(allow_external_search, search_status, results, allow_external_enrichment, add) ==
    [allow_external_search |-> allow_external_search, search_status |-> search_status,
     results |-> results, allow_external_enrichment |-> allow_external_enrichment,
     add |-> add]

ExternalWorlds(claims) ==
    IF Take(claims, 3) = <<>>
    THEN {ExternalWorld(s, "ok", <<>>, e, "ok") : s \in BOOLEAN, e \in BOOLEAN}
    ELSE {ExternalWorld(FALSE, "ok", <<>>, FALSE, "ok"),
          ExternalWorld(TRUE, "raise", <<>>, FALSE, "ok")} \cup
         {ExternalWorld(TRUE, "ok", r, FALSE, "ok") : r \in ExternalResultLists} \cup
         {ExternalWorld(TRUE, "ok",
                        <<ExternalResult("high_credibility", "ok", {"support"})>>,
                        TRUE, a) : a \in {"ok", "ValueError", "error"}}

CredibleTypes ==
    {"authoritative", "high_credibility", "scientific", "fact_check", "internal"}

HasCredibleItem(items) ==
    \E i \in 1..Len(items) : items[i].source_type \in CredibleTypes

\* The snippets gathered for the first three claims: none when the search
\* switch is off (ExternalSearchClient.search returns an empty list).
ExternalItems(claims, world) ==
    IF Take(claims, 3) = <<>> \/ ~world.allow_external_search THEN <<>>
    ELSE world.results

\* A search request for one of the claims raised.
SearchRaises(claims, world) ==
    /\ Take(claims, 3) # <<>>
    /\ world.allow_external_search
    /\ world.search_status = "raise"

\* Variant: a classified item replaces the confidence instead of raising it.
EnrichedConfidence_overwrite(prior, supporting_items, contradicting_items) ==
    LET total_classified == Len(supporting_items) + Len(contradicting_items)
    IN  IF total_classified > 0
        THEN (Len(supporting_items) * 70) \div total_classified
        ELSE prior

\* evidence_confidence after the new items are counted.
EnrichedConfidence(prior, supporting_items, contradicting_items) ==
    LET total_classified == Len(supporting_items) + Len(contradicting_items)
        support_ratio_70 == IF total_classified > 0
                            THEN (Len(supporting_items) * 70) \div total_classified
                            ELSE 0
    IN  IF supporting_items # <<>> \/ contradicting_items # <<>>
        THEN Max(prior, support_ratio_70)
        ELSE prior

\* conflicts_present after the new items are counted.
EnrichedConflicts(prior, supporting_items, contradicting_items) ==
    IF supporting_items # <<>> \/ contradicting_items # <<>>
    THEN Len(contradicting_items) > 0
    ELSE prior

\* evidence_gap over the merged lists.
EnrichedGap(prior, supporting, contradicting) ==
    IF supporting = <<>> /\ contradicting = <<>> THEN TRUE
    ELSE IF HasCredibleItem(supporting \o contradicting) THEN FALSE
    ELSE prior

\* evidence_gap_reason over the merged lists.
EnrichedGapReason(prior, supporting, contradicting) ==
    IF supporting = <<>> /\ contradicting = <<>>
    THEN IF prior \in {None, Some(<<>>)}
         THEN Some(<<"No supporting or contradicting internal evidence.">>)
         ELSE prior
    ELSE IF HasCredibleItem(supporting \o contradicting) THEN None
    ELSE prior

\* [raised, evidence, index, writes]: the Evidence handed back, the evidence
\* collection afterwards and the number of add_documents calls made.
_attach_external_context(evidence, claims, index, world) ==
    LET ev0 == IF evidence = None
               THEN Evidence(<<>>, <<>>, <<>>, 0, FALSE, TRUE,
                             Some(<<"No internal evidence available.">>))
               ELSE evidence[1]
        external_items == ExternalItems(claims, world)
        classified(kind) ==
            SelectSeq(external_items,
                      LAMBDA r : _classify_external_evidence(r.answer) = kind)
        mk(rs) == [i \in 1..Len(rs) |-> EvidenceItem("snippet", rs[i].source_type, 50)]
        supporting_items == mk(classified("supporting"))
        contradicting_items == mk(classified("contradicting"))
        contextual_items == mk(classified("contextual"))
        supporting == ev0.supporting \o supporting_items
        contradicting == ev0.contradicting \o contradicting_items
        contextual == ev0.contextual \o contextual_items
        all_external == supporting_items \o contradicting_items \o contextual_items
        write == world.allow_external_enrichment /\ all_external # <<>>
        result ==
            Evidence(supporting, contradicting, contextual,
                     EnrichedConfidence(ev0.evidence_confidence, supporting_items,
                                        contradicting_items),
                     EnrichedConflicts(ev0.conflicts_present, supporting_items,
                                       contradicting_items),
                     EnrichedGap(ev0.evidence_gap, supporting, contradicting),
                     EnrichedGapReason(ev0.evidence_gap_reason, supporting,
                                       contradicting))
    IN  IF SearchRaises(claims, world)
        THEN [raised |-> TRUE, evidence |-> ev0, index |-> index, writes |-> 0]
        ELSE [raised |-> write /\ world.add = "error",
              evidence |-> result,
              index |-> IF write /\ world.add = "ok"
                        THEN index \o [i \in 1..Len(all_external) |-> "external_search"]
                        ELSE index,
              writes |-> IF write THEN 1 ELSE 0]

\* ------------------------------------------------------------------------
\* DecisionOrchestrator.analyze as a state machine, one step per collaborator
\* ------------------------------------------------------------------------

VARIABLES
    versions,                \* SystemConfigVersion rows, in creation order
    index,                   \* documents of the evidence collection
    pc,                      \* position of the analyze call
    claims,
    claim_confidence,
    risk_assessment,         \* Optional
    evidence,                \* Optional
    factuality_assessments,
    policy_interpretation,   \* Optional
    agent_executions,
    calls,                   \* collaborator invocations with their arguments
    decision,                \* Optional
    requires_human_review,   \* Optional: analyze's local of that name
    result,                  \* Optional: the AnalysisResponse returned
    raised_in,               \* Optional: the call whose exception left analyze
    call_args,               \* Optional: arguments and outside answers of a
                             \* function applied on its own
    call_result,             \* Optional: what that function gave back
    decision_records,        \* DecisionRecord rows, in id order
    review_records,          \* ReviewRecord rows, in id order
    requests,                \* the analyze_content requests being served
    activated                \* Optional: id of the version activated last

vars ==
    <<versions, index, pc, claims, claim_confidence, risk_assessment, evidence,
      factuality_assessments, policy_interpretation, agent_executions, calls,
      decision, requires_human_review, result, raised_in, call_args, call_result,
      decision_records, review_records, requests, activated>>

\* The governance tables and the state of the requests working on them.
governance == <<decision_records, review_records, requests, activated>>

\* The configuration table and the evidence collection an analysis starts from.
StartSamples ==
    {[versions |-> <<>>, index |-> <<>>],
     [versions |-> <<>>, index |-> <<"kb">>],
     [versions |-> <<[active |-> TRUE,
                      threshold_updates |-> [risk_confidence_threshold |-> 50]]>>,
      index |-> <<"kb">>]}

Init ==
    /\ \E st \in StartSamples : versions = st.versions /\ index = st.index
    /\ pc = "claim"
    /\ claims = <<>>
    /\ claim_confidence = 0
    /\ risk_assessment = None
    /\ evidence = None
    /\ factuality_assessments = <<>>
    /\ policy_interpretation = None
    /\ agent_executions = <<>>
    /\ calls = <<>>
    /\ decision = None
    /\ requires_human_review = None
    /\ result = None
    /\ raised_in = None
    /\ call_args = None
    /\ call_result = None
    /\ decision_records = <<>>
    /\ review_records = <<>>
    /\ requests = <<>>
    /\ activated = InitiallyActivated(versions)

Call(callee) == [callee |-> callee]

\* The exception of a collaborator call leaves analyze: nothing catches it.
Propagate(callee) ==
    /\ pc' = "raised"
    /\ raised_in' = Some(callee)

\* Step 1: extract claims.
ClaimStep ==
    /\ pc = "claim"
    /\ \E groq_api_key \in BOOLEAN, groq \in ClaimCompletions, azure \in ClaimCompletions :
        LET r == ClaimAgent_process(groq_api_key, groq, azure)
        IN  /\ calls' = Append(calls, Call("ClaimAgent.process"))
            /\ IF r.raised
               THEN /\ Propagate("ClaimAgent.process")
                    /\ UNCHANGED <<claims, claim_confidence, agent_executions>>
               ELSE /\ claims' = r.value
                    /\ agent_executions' = Append(agent_executions, r.detail)
                    /\ claim_confidence' =
                           (IF r.detail.confidence = None THEN 0 ELSE r.detail.confidence[1])
                    /\ pc' = "risk"
                    /\ UNCHANGED raised_in
    /\ UNCHANGED <<call_args, call_result, versions, governance, index, risk_assessment, evidence, factuality_assessments,
                   policy_interpretation, decision, requires_human_review, result>>

\* Variant: the gate looks at the tier alone.
FullPipeline_tieronly(vs, risk) ==
    risk.tier \in {"Medium", "High"}

\* The routing gate of step 3.
FullPipeline(vs, risk) ==
    LET risk_threshold == get_threshold_value(vs, "risk_confidence_threshold",
                                              risk_confidence_threshold)
        risk_confident == risk.confidence >= risk_threshold
    IN  risk.tier \in {"Medium", "High"} /\ risk_confident

\* Step 2: assess risk, then choose the path.
RiskStep ==
    /\ pc = "risk"
    /\ \E zentropi_configured \in BOOLEAN, slm \in ZentropiRiskResults,
          frontier \in FrontierRiskResults :
        LET r == RiskAgent_process(zentropi_configured, slm, frontier)
        IN  /\ calls' = Append(calls, Call("RiskAgent.process"))
            /\ IF r.raised
               THEN /\ Propagate("RiskAgent.process")
                    /\ UNCHANGED <<risk_assessment, agent_executions>>
               ELSE /\ risk_assessment' = Some(r.value)
                    /\ agent_executions' = Append(agent_executions, r.detail)
                    /\ pc' = IF FullPipeline(versions, r.value) THEN "evidence"
                             ELSE "policy_fast"
                    /\ UNCHANGED raised_in
    /\ UNCHANGED <<call_args, call_result, versions, governance, index, claims, claim_confidence, evidence,
                   factuality_assessments, policy_interpretation, decision,
                   requires_human_review, result>>

\* Step 3a: retrieve evidence.
EvidenceStep ==
    /\ pc = "evidence"
    /\ \E search \in VectorSearches :
        /\ (index = <<>> => search.hits = <<>>)
        /\ LET r == EvidenceAgent_process(versions, claims, search)
           IN  /\ calls' = Append(calls, IF r.raised THEN Call("EvidenceAgent.process")
                                         ELSE [callee |-> "EvidenceAgent.process",
                                               returned |-> r.value])
               /\ IF r.raised
                  THEN /\ Propagate("EvidenceAgent.process")
                       /\ UNCHANGED <<evidence, agent_executions>>
                  ELSE /\ evidence' = Some(r.value)
                       /\ agent_executions' = Append(agent_executions, r.detail)
                       /\ pc' = "novelty"
                       /\ UNCHANGED raised_in
    /\ UNCHANGED <<call_args, call_result, versions, governance, index, claims, claim_confidence, risk_assessment,
                   factuality_assessments, policy_interpretation, decision,
                   requires_human_review, result>>

\* The gap reason analyze writes after an enrichment.
NoveltyReason(similarity_score, novelty_threshold, has_internal_evidence, reason) ==
    LET reason_parts ==
            (IF similarity_score < novelty_threshold THEN <<"High novelty">> ELSE <<>>) \o
            (IF ~has_internal_evidence THEN <<"No internal evidence found">> ELSE <<>>)
    IN  IF reason_parts = <<>> THEN reason
        ELSE Some(reason_parts \o (IF reason = None THEN <<>> ELSE reason[1]))

\* Variant: only novelty triggers the enrichment.
ShouldEnrich_noveltyonly(similarity_score, novelty_threshold, has_internal_evidence) ==
    similarity_score < novelty_threshold

\* The enrichment test of line 85.
ShouldEnrich(similarity_score, novelty_threshold, has_internal_evidence) ==
    similarity_score < novelty_threshold \/ ~has_internal_evidence

\* The similarity call as logged: the number of documents the store held, the
\* per-claim scores it gave and the value returned.
SimilarityCall(documents, lookup, returned) ==
    [callee |-> "_max_claim_similarity", documents |-> documents,
     scores |-> lookup.scores, returned |-> returned]

\* Step 3b: similarity to the index, and external enrichment when novel.
NoveltyStep ==
    /\ pc = "novelty"
    /\ \E lookup \in SimilarityLookups(claims), world \in ExternalWorlds(claims) :
        LET sim == _max_claim_similarity(claims, index, lookup)
            similarity_score == sim.value
            has_internal_evidence ==
                Len(evidence[1].supporting) > 0 \/ Len(evidence[1].contradicting) > 0
            novelty_threshold ==
                get_threshold_value(versions, "novelty_similarity_threshold",
                                    novelty_similarity_threshold)
            enrich == ShouldEnrich(similarity_score, novelty_threshold,
                                   has_internal_evidence)
            sim_call == SimilarityCall(Len(index), lookup, similarity_score)
            att == _attach_external_context(evidence, claims, index, world)
        IN  IF sim.raised
            THEN /\ calls' = Append(calls, Call("_max_claim_similarity"))
                 /\ Propagate("_max_claim_similarity")
                 /\ UNCHANGED <<evidence, index>>
            ELSE IF ~enrich
            THEN /\ calls' = Append(calls, sim_call)
                 /\ pc' = "factuality"
                 /\ UNCHANGED <<evidence, index, raised_in>>
            ELSE /\ calls' = calls \o <<sim_call, Call("_attach_external_context")>>
                 /\ index' = att.index
                 /\ IF att.raised
                    THEN /\ Propagate("_attach_external_context")
                         /\ evidence' = Some(att.evidence)
                    ELSE /\ evidence' =
                               Some([att.evidence EXCEPT !.evidence_gap_reason =
                                        NoveltyReason(similarity_score, novelty_threshold,
                                                      has_internal_evidence, @)])
                         /\ pc' = "factuality"
                         /\ UNCHANGED raised_in
    /\ UNCHANGED <<call_args, call_result, versions, governance, claims, claim_confidence, risk_assessment,
                   factuality_assessments, policy_interpretation, agent_executions,
                   decision, requires_human_review, result>>

\* Step 4: assess factuality against the evidence as it now stands.
FactualityStep ==
    /\ pc = "factuality"
    /\ \E llm \in FactualityCompletions(claims) :
        LET r == FactualityAgent_process(claims, evidence, llm)
        IN  /\ calls' = Append(calls, [callee |-> "FactualityAgent.process",
                                       evidence |-> evidence])
            /\ IF r.raised
               THEN /\ Propagate("FactualityAgent.process")
                    /\ UNCHANGED <<factuality_assessments, agent_executions>>
               ELSE /\ factuality_assessments' = r.value
                    /\ agent_executions' = Append(agent_executions, r.detail)
                    /\ pc' = "policy"
                    /\ UNCHANGED raised_in
    /\ UNCHANGED <<call_args, call_result, versions, governance, index, claims, claim_confidence, risk_assessment, evidence,
                   policy_interpretation, decision, requires_human_review, result>>

SkippedDetail(agent_type) ==
    AgentExecutionDetail(agent_type,
        "Skipped due to low risk or low confidence routing decision.",
        "skipped", None, None, FALSE, None)

\* The policy call shared by both branches: details recorded before it, and
\* the factuality list handed to the agent.
PolicyCall(before, factuality) ==
    \E zentropi_configured \in BOOLEAN, slm \in ZentropiPolicyResults,
       frontier \in FrontierPolicyResults :
        LET r == PolicyAgent_process(zentropi_configured, slm, frontier)
        IN  /\ calls' = Append(calls, [callee |-> "PolicyAgent.process",
                                       factuality_assessments |-> factuality])
            /\ IF r.raised
               THEN /\ Propagate("PolicyAgent.process")
                    /\ agent_executions' = agent_executions \o before
                    /\ UNCHANGED policy_interpretation
               ELSE /\ policy_interpretation' = Some(r.value)
                    /\ agent_executions' = (agent_executions \o before) \o <<r.detail>>
                    /\ pc' = "decide"
                    /\ UNCHANGED raised_in

\* Variant: the full pipeline hands the policy agent an empty factuality list.
PolicyStep_nofactuality ==
    /\ pc = "policy"
    /\ PolicyCall(<<>>, <<>>)
    /\ UNCHANGED <<call_args, call_result, versions, governance, index, claims, claim_confidence, risk_assessment, evidence,
                   factuality_assessments, decision, requires_human_review, result>>

\* Step 5 on the full pipeline.
PolicyStep ==
    /\ pc = "policy"
    /\ PolicyCall(<<>>, factuality_assessments)
    /\ UNCHANGED <<call_args, call_result, versions, governance, index, claims, claim_confidence, risk_assessment, evidence,
                   factuality_assessments, decision, requires_human_review, result>>

\* Variant: the skipped stages leave no audit entry.
FastPathStep_noentries ==
    /\ pc = "policy_fast"
    /\ PolicyCall(<<>>, <<>>)
    /\ UNCHANGED <<call_args, call_result, versions, governance, index, claims, claim_confidence, risk_assessment, evidence,
                   factuality_assessments, decision, requires_human_review, result>>

\* The else branch: evidence and factuality are skipped, policy still runs.
FastPathStep ==
    /\ pc = "policy_fast"
    /\ PolicyCall(<<SkippedDetail("evidence"), SkippedDetail("factuality")>>, <<>>)
    /\ UNCHANGED <<call_args, call_result, versions, governance, index, claims, claim_confidence, risk_assessment, evidence,
                   factuality_assessments, decision, requires_human_review, result>>

AnalysisResponse(d, cl, risk, ev, fa, pol, execs) ==
    [decision |-> d, claims |-> cl, risk_assessment |-> risk, evidence |-> ev,
     factuality_assessments |-> fa, policy_interpretation |-> pol,
     review_request_id |-> None, agent_executions |-> execs]

\* Step 6: the decision matrix, the escalation check, and the return.
DecideStep ==
    /\ pc = "decide"
    /\ LET d == _make_decision(risk_assessment[1], policy_interpretation, evidence)
           review == _requires_human_review(versions, risk_assessment[1],
                                            policy_interpretation, evidence, d,
                                            claim_confidence)
       IN  /\ decision' = Some(d)
           /\ requires_human_review' = Some(review)
           /\ result' = Some(AnalysisResponse(d, claims, risk_assessment[1], evidence,
                                              factuality_assessments,
                                              policy_interpretation, agent_executions))
    /\ pc' = "done"
    /\ UNCHANGED <<call_args, call_result, versions, governance, index, claims, claim_confidence, risk_assessment, evidence,
                   factuality_assessments, policy_interpretation, agent_executions,
                   calls, raised_in>>

Next ==
    \/ ClaimStep
    \/ RiskStep
    \/ EvidenceStep
    \/ NoveltyStep
    \/ FactualityStep
    \/ PolicyStep
    \/ FastPathStep
    \/ DecideStep

Spec == Init /\ [][Next]_vars

\* ------------------------------------------------------------------------
\* _make_decision and _requires_human_review on their own: the arguments are
\* drawn in the initial state and the two functions are applied in turn.
\* ------------------------------------------------------------------------

MatrixConfidenceSamples == {0, 59, 60, 69, 70, 100}

VersionSamples ==
    {<<>>,
     <<[active |-> TRUE, threshold_updates |-> [risk_confidence_threshold |-> 50]]>>,
     <<[active |-> TRUE,
        threshold_updates |-> [policy_confidence_threshold |-> 80,
                               claim_confidence_threshold |-> 95]]>>}

RiskSamples ==
    {[tier |-> t, confidence |-> c, route_reason |-> "fallback_frontier",
      model_used |-> "azure_openai"] : t \in RiskTier, c \in RiskConfidenceSamples}

PolicySamples ==
    {None} \cup
    {Some([violation |-> "Yes", policy_confidence |-> c,
           allowed_contexts |-> IF d THEN <<"satire">> ELSE <<>>,
           conflict_detected |-> d, model_used |-> "azure_openai",
           route_reason |-> "fallback_frontier"]) :
        c \in MatrixConfidenceSamples, d \in BOOLEAN}

EvidenceSamples ==
    {None,
     Some(Evidence(<<EvidenceItem("kb", "internal", 90)>>, <<>>, <<>>, 80, FALSE, FALSE,
                   None)),
     Some(Evidence(<<>>, <<EvidenceItem("kb", "internal", 50)>>, <<>>, 0, TRUE, FALSE,
                   None))}

InitDecision ==
    /\ versions \in VersionSamples
    /\ index = <<>>
    /\ pc = "arguments"
    /\ claims = <<>>
    /\ claim_confidence \in {50, 65, 90}
    /\ risk_assessment \in {Some(r) : r \in RiskSamples}
    /\ evidence \in EvidenceSamples
    /\ factuality_assessments = <<>>
    /\ policy_interpretation \in PolicySamples
    /\ agent_executions = <<>>
    /\ calls = <<>>
    /\ decision = None
    /\ requires_human_review = None
    /\ result = None
    /\ raised_in = None
    /\ call_args = None
    /\ call_result = None
    /\ decision_records = <<>>
    /\ review_records = <<>>
    /\ requests = <<>>
    /\ activated = InitiallyActivated(versions)

MakeDecision ==
    /\ pc = "arguments"
    /\ decision' = Some(_make_decision(risk_assessment[1], policy_interpretation, evidence))
    /\ pc' = "decided"
    /\ UNCHANGED <<call_args, call_result, versions, governance, index, claims, claim_confidence, risk_assessment, evidence,
                   factuality_assessments, policy_interpretation, agent_executions,
                   calls, requires_human_review, result, raised_in>>

RequiresHumanReview ==
    /\ pc = "decided"
    /\ requires_human_review' =
           Some(_requires_human_review(versions, risk_assessment[1],
                                       policy_interpretation, evidence, decision[1],
                                       claim_confidence))
    /\ pc' = "checked"
    /\ UNCHANGED <<call_args, call_result, versions, governance, index, claims, claim_confidence, risk_assessment, evidence,
                   factuality_assessments, policy_interpretation, agent_executions,
                   calls, decision, result, raised_in>>

NextDecision ==
    \/ MakeDecision
    \/ RequiresHumanReview

SpecDecision == InitDecision /\ [][NextDecision]_vars

\* ------------------------------------------------------------------------
\* RiskAgent.process and PolicyAgent.process on their own: the configuration
\* table, the Zentropi switch and the answers of the two models are drawn in
\* the initial state and the agent is applied to them.
\* ------------------------------------------------------------------------

AgentCalls ==
    {[agent |-> "risk", zentropi_configured |-> z, slm |-> s, frontier |-> f] :
        z \in BOOLEAN, s \in ZentropiRiskResults, f \in FrontierRiskResults} \cup
    {[agent |-> "policy", zentropi_configured |-> z, slm |-> s, frontier |-> f] :
        z \in BOOLEAN, s \in ZentropiPolicyResults,
        f \in FrontierPolicyResults \cup FrontierPolicyEdgeResults}

InitAgents ==
    /\ versions \in VersionSamples
    /\ index = <<>>
    /\ pc = "agent_arguments"
    /\ claims = <<>>
    /\ claim_confidence = 0
    /\ risk_assessment = None
    /\ evidence = None
    /\ factuality_assessments = <<>>
    /\ policy_interpretation = None
    /\ agent_executions = <<>>
    /\ calls = <<>>
    /\ decision = None
    /\ requires_human_review = None
    /\ result = None
    /\ raised_in = None
    /\ call_args \in {Some(a) : a \in AgentCalls}
    /\ call_result = None
    /\ decision_records = <<>>
    /\ review_records = <<>>
    /\ requests = <<>>
    /\ activated = InitiallyActivated(versions)

RiskProcess ==
    /\ pc = "agent_arguments"
    /\ call_args[1].agent = "risk"
    /\ call_result' = Some(RiskAgent_process(call_args[1].zentropi_configured,
                                             call_args[1].slm, call_args[1].frontier))
    /\ pc' = "agent_returned"
    /\ UNCHANGED <<call_args, versions, governance, index, claims, claim_confidence, risk_assessment,
                   evidence, factuality_assessments, policy_interpretation,
                   agent_executions, calls, decision, requires_human_review, result,
                   raised_in>>

PolicyProcess ==
    /\ pc = "agent_arguments"
    /\ call_args[1].agent = "policy"
    /\ call_result' = Some(PolicyAgent_process(call_args[1].zentropi_configured,
                                               call_args[1].slm, call_args[1].frontier))
    /\ pc' = "agent_returned"
    /\ UNCHANGED <<call_args, versions, governance, index, claims, claim_confidence, risk_assessment,
                   evidence, factuality_assessments, policy_interpretation,
                   agent_executions, calls, decision, requires_human_review, result,
                   raised_in>>

NextAgents ==
    \/ RiskProcess
    \/ PolicyProcess

SpecAgents == InitAgents /\ [][NextAgents]_vars

\* ------------------------------------------------------------------------
\* _attach_external_context on its own: the Evidence given, the claims and the
\* answers of the search, the classifier and the vector store are drawn in the
\* initial state and the function is applied to them.
\* ------------------------------------------------------------------------

MaxExternal == 2

\* One search result: where it comes from and what the classifier says of it.
ExternalResultSamples ==
    {ExternalResult(t, a.status, a.words) :
        t \in {"high_credibility", "external"},
        a \in {[status |-> "raise", words |-> {}], [status |-> "ok", words |-> {}],
               [status |-> "ok", words |-> {"support"}],
               [status |-> "ok", words |-> {"contradict"}]}}

EnrichWorlds ==
    {ExternalWorld(s.allow, s.status, r, e.allow, e.add) :
        s \in {[allow |-> FALSE, status |-> "ok"], [allow |-> TRUE, status |-> "ok"],
               [allow |-> TRUE, status |-> "raise"]},
        r \in SeqsUpTo(ExternalResultSamples, MaxExternal),
        e \in {[allow |-> FALSE, add |-> "ok"], [allow |-> TRUE, add |-> "ok"],
               [allow |-> TRUE, add |-> "ValueError"], [allow |-> TRUE, add |-> "error"]}}

\* The Evidence analyze may hand over: what EvidenceAgent.process returns for
\* an empty claim list and for each retrieval, and no Evidence at all.
EnrichPriorSamples ==
    {None, Some(Evidence(<<>>, <<>>, <<>>, 0, FALSE, FALSE, None))} \cup
    {Some(retrieve_evidence(<<>>, h)) : h \in HitLists}

EnrichClaimSamples == {<<>>, <<[text |-> 1, confidence |-> 90]>>}

InitEnrich ==
    /\ versions = <<>>
    /\ index = <<"kb">>
    /\ pc = "enrich_arguments"
    /\ claims \in EnrichClaimSamples
    /\ claim_confidence = 0
    /\ risk_assessment = None
    /\ evidence \in EnrichPriorSamples
    /\ factuality_assessments = <<>>
    /\ policy_interpretation = None
    /\ agent_executions = <<>>
    /\ calls = <<>>
    /\ decision = None
    /\ requires_human_review = None
    /\ result = None
    /\ raised_in = None
    /\ call_args \in {Some(w) : w \in EnrichWorlds}
    /\ call_result = None
    /\ decision_records = <<>>
    /\ review_records = <<>>
    /\ requests = <<>>
    /\ activated = InitiallyActivated(versions)

AttachExternalContext ==
    /\ pc = "enrich_arguments"
    /\ call_result' = Some(_attach_external_context(evidence, claims, index, call_args[1]))
    /\ pc' = "enriched"
    /\ UNCHANGED <<call_args, versions, governance, index, claims, claim_confidence, risk_assessment,
                   evidence, factuality_assessments, policy_interpretation,
                   agent_executions, calls, decision, requires_human_review, result,
                   raised_in>>

NextEnrich ==
    AttachExternalContext

SpecEnrich == InitEnrich /\ [][NextEnrich]_vars

\* ------------------------------------------------------------------------
\* Properties
\* ------------------------------------------------------------------------

Threshold(name) == get_threshold_value(versions, name, DEFAULT_THRESHOLDS[name])

MediumOrHigh(risk) == risk.tier \in {"Medium", "High"}

\* The rules of section 4.1.2, given the matrix's own verdict.
EscalationRule(risk, pol, ev, matrix_review, cc) ==
    \/ matrix_review
    \/ (ev # None /\ ev[1].conflicts_present /\ MediumOrHigh(risk))
    \/ (MediumOrHigh(risk) /\ cc < Threshold("claim_confidence_threshold"))
    \/ (MediumOrHigh(risk) /\ risk.confidence < Threshold("risk_confidence_threshold"))
    \/ (risk.tier = "High" /\ pol # None
        /\ pol[1].policy_confidence < Threshold("policy_confidence_threshold"))
    \/ (MediumOrHigh(risk) /\ pol # None /\ pol[1].conflict_detected)

\* The routing condition of step 4 of the routing algorithm.
RoutedToFullPipeline(risk) ==
    MediumOrHigh(risk) /\ risk.confidence >= Threshold("risk_confidence_threshold")

Callees == [i \in 1..Len(calls) |-> calls[i].callee]

CallCount(callee) == Cardinality({i \in 1..Len(calls) : calls[i].callee = callee})

\* C1: with a PolicyInterpretation present, _make_decision follows the table
\* of section 4.1.1 row by row, and requires_human_review is true exactly for
\* Escalate to Human and Human Confirmation.
C1_MatrixMatchesTable ==
    (pc \in {"decided", "checked"} /\ policy_interpretation # None) =>
        LET t == risk_assessment[1].tier
            c == policy_interpretation[1].policy_confidence
            d == decision[1]
        IN  /\ (t = "Low" /\ c >= 70) => d.action = "Allow"
            /\ (t = "Low" /\ c < 70) => d.action = "Label / Downrank"
            /\ (t = "Medium" /\ c >= 60) => d.action = "Label / Downrank"
            /\ (t = "Medium" /\ c < 60) => d.action = "Escalate to Human"
            /\ (t = "High" /\ c < 60) => d.action = "Escalate to Human"
            /\ (t = "High" /\ c >= 60) => d.action = "Human Confirmation"
            /\ d.requires_human_review <=>
                   d.action \in {"Escalate to Human", "Human Confirmation"}

\* Scenario 2 of the spec: High risk, policy confidence below 0.6.
C1_Witness ==
    /\ pc = "decided"
    /\ policy_interpretation # None
    /\ risk_assessment[1].tier = "High"
    /\ policy_interpretation[1].policy_confidence = 59
    /\ decision[1].action = "Escalate to Human"
    /\ decision[1].requires_human_review

\* C2: the Decision returned by analyze has requires_human_review = true
\* whenever an escalation rule holds for the run, in particular when the
\* evidence has conflicts and the tier is Medium.
C2_ReturnedDecisionEscalated ==
    result # None =>
        LET r == result[1]
        IN  EscalationRule(r.risk_assessment, r.policy_interpretation, r.evidence,
                           FALSE, claim_confidence)
                => r.decision.requires_human_review

\* C3: a risk assessment below risk_confidence_threshold never ends in Allow.
C3_UntrustedRiskNeverAllows ==
    result # None =>
        (result[1].risk_assessment.confidence < Threshold("risk_confidence_threshold")
            => result[1].decision.action # "Allow")

C5_EscalationMonotonic ==
    (pc = "checked" /\ decision[1].requires_human_review) => requires_human_review[1]

\* The matrix alone requires the review: no gate of 4.1.2 fires.
C5_Witness ==
    /\ pc = "checked"
    /\ decision[1].requires_human_review
    /\ ~EscalationRule(risk_assessment[1], policy_interpretation, evidence, FALSE,
                       claim_confidence)
    /\ requires_human_review[1]

\* C6: on the fast path (tier Low, or risk confidence below the threshold)
\* evidence retrieval and factuality assessment are not invoked, the policy
\* agent is invoked once with an empty factuality list, and the bundle has no
\* evidence and no factuality assessments.
C6_FastPathSkipsRetrieval ==
    (result # None /\ ~RoutedToFullPipeline(result[1].risk_assessment)) =>
        /\ CallCount("EvidenceAgent.process") = 0
        /\ CallCount("_max_claim_similarity") = 0
        /\ CallCount("_attach_external_context") = 0
        /\ CallCount("FactualityAgent.process") = 0
        /\ CallCount("PolicyAgent.process") = 1
        /\ \A i \in 1..Len(calls) :
               calls[i].callee = "PolicyAgent.process"
                   => calls[i].factuality_assessments = <<>>
        /\ result[1].evidence = None
        /\ result[1].factuality_assessments = <<>>

\* The regression case: High tier, risk confidence below the threshold.
C6_Witness ==
    /\ result # None
    /\ result[1].risk_assessment.tier = "High"
    /\ result[1].risk_assessment.confidence < Threshold("risk_confidence_threshold")

\* C7: on the full pipeline the collaborators run in the order claim, risk,
\* evidence, similarity and (when triggered) enrichment, factuality, policy,
\* each agent once; factuality gets the evidence as enrichment left it and
\* policy gets factuality's output.
C7_FullPipelineOrder ==
    (result # None /\ RoutedToFullPipeline(result[1].risk_assessment)) =>
        /\ Callees \in
               {<<"ClaimAgent.process", "RiskAgent.process", "EvidenceAgent.process",
                  "_max_claim_similarity", "FactualityAgent.process",
                  "PolicyAgent.process">>,
                <<"ClaimAgent.process", "RiskAgent.process", "EvidenceAgent.process",
                  "_max_claim_similarity", "_attach_external_context",
                  "FactualityAgent.process", "PolicyAgent.process">>}
        /\ \A i \in 1..Len(calls) :
               /\ calls[i].callee = "FactualityAgent.process"
                      => calls[i].evidence = result[1].evidence
               /\ calls[i].callee = "PolicyAgent.process"
                      => calls[i].factuality_assessments =
                             result[1].factuality_assessments

\* A run whose enrichment added items and whose factuality call used them.
C7_Witness ==
    /\ result # None
    /\ CallCount("_attach_external_context") = 1
    /\ \E i \in 1..Len(result[1].evidence[1].contradicting) :
           result[1].evidence[1].contradicting[i].text = "snippet"
    /\ result[1].factuality_assessments # <<>>
    /\ result[1].factuality_assessments[1].status = "Likely False"

\* C8: every returned bundle has five audit entries, claim, risk, evidence,
\* factuality, policy in that order; on the fast path the evidence and
\* factuality entries are marked skipped.
C8_FiveAuditEntries ==
    result # None =>
        LET execs == result[1].agent_executions
        IN  /\ [i \in 1..Len(execs) |-> execs[i].agent_type] =
                   <<"claim", "risk", "evidence", "factuality", "policy">>
            /\ ~RoutedToFullPipeline(result[1].risk_assessment) =>
                   (execs[3].status = "skipped" /\ execs[4].status = "skipped")

\* A fast-path run caused by low risk confidence on a Medium tier.
C8_Witness ==
    /\ result # None
    /\ result[1].risk_assessment.tier = "Medium"
    /\ ~RoutedToFullPipeline(result[1].risk_assessment)
    /\ Len(result[1].agent_executions) = 5
    /\ result[1].agent_executions[4].status = "skipped"

\* C9: analyze never ends with an exception, whichever collaborator fails.
C9_AnalyzeNeverRaises ==
    pc # "raised"

\* C10: without a PolicyInterpretation _make_decision escalates with
\* confidence 0.0 and the reason "Policy interpretation unavailable", for
\* every tier and whatever the evidence.
C10_MissingPolicyEscalates ==
    (pc \in {"decided", "checked"} /\ policy_interpretation = None) =>
        /\ decision[1].action = "Escalate to Human"
        /\ decision[1].confidence = 0
        /\ decision[1].requires_human_review
        /\ decision[1].escalation_reason # None
        /\ decision[1].escalation_reason[1].template = "Policy interpretation unavailable"

\* Low tier with evidence at hand and no interpretation.
C10_Witness ==
    /\ pc = "decided"
    /\ policy_interpretation = None
    /\ risk_assessment[1].tier = "Low"
    /\ evidence # None
    /\ decision[1].action = "Escalate to Human"

\* ------------------------------------------------------------------------
\* Properties of the agents' confidence routing (section 4.3)
\* ------------------------------------------------------------------------

\* The primary label names no known category.
LabelUnmapped(a) ==
    IF a.agent = "risk" THEN a.slm.label \cap {"high", "medium", "low"} = {}
    ELSE a.slm.label \cap {"context", "yes", "violate", "no"} = {}

\* The primary path was tried and failed.
PrimaryFailed(a) ==
    a.zentropi_configured /\ (a.slm.status = "raise" \/ LabelUnmapped(a))

PrimaryAbsent(a) == ~a.zentropi_configured \/ PrimaryFailed(a)

FrontierCalls(r) ==
    Cardinality({i \in 1..Len(r.trace) : r.trace[i] = "frontier.chat"})

\* The threshold the agent is configured with, and the one in force under the
\* active configuration version.
ConfiguredThreshold(a) ==
    IF a.agent = "risk" THEN risk_confidence_threshold ELSE policy_confidence_threshold

OverriddenThreshold(a) ==
    IF a.agent = "risk" THEN Threshold("risk_confidence_threshold")
    ELSE Threshold("policy_confidence_threshold")

\* The answer returned is the frontier model's.
FrontierAnswerReturned(a, r) ==
    /\ r.value.route_reason = "fallback_frontier"
    /\ IF a.agent = "risk"
       THEN /\ r.value.tier = a.frontier.tier
            /\ r.value.confidence = a.frontier.confidence
       ELSE /\ r.value.violation = a.frontier.violation
            /\ r.value.policy_confidence = a.frontier.policy_confidence
            /\ r.value.allowed_contexts = a.frontier.allowed_contexts

\* C11: the Risk and Policy agents invoke the frontier model, exactly once,
\* if and only if the primary result is absent (not configured, call raised,
\* label unmapped) or its confidence is below the agent's threshold; the
\* result then has route_reason "fallback_frontier" and fallback_used true,
\* otherwise "slm_primary", fallback_used false and no frontier call.  The
\* threshold is the one the agent is configured with; which value applies
\* under an active override is the subject of C14.
C11_FallbackIffPrimaryWeak ==
    pc = "agent_returned" =>
        LET a == call_args[1]
            r == call_result[1]
            weak == PrimaryAbsent(a) \/ a.slm.confidence < ConfiguredThreshold(a)
        IN  /\ weak =>
                /\ FrontierCalls(r) = 1
                /\ ~r.raised =>
                       /\ r.value.route_reason = "fallback_frontier"
                       /\ r.detail.route_reason = Some("fallback_frontier")
                       /\ r.detail.fallback_used
            /\ ~weak =>
                /\ FrontierCalls(r) = 0
                /\ ~r.raised
                /\ r.value.route_reason = "slm_primary"
                /\ r.detail.route_reason = Some("slm_primary")
                /\ ~r.detail.fallback_used

\* A mapped primary label whose confidence is below the threshold.
C11_Witness ==
    /\ pc = "agent_returned"
    /\ call_args[1].agent = "risk"
    /\ ~PrimaryAbsent(call_args[1])
    /\ call_args[1].slm.confidence = 55
    /\ FrontierCalls(call_result[1]) = 1
    /\ ~call_result[1].raised
    /\ call_result[1].detail.fallback_used

\* C12: when the primary call raises or its label maps to no category, the
\* agent does not raise because of it: it calls the frontier model and
\* returns that model's answer.
C12_PrimaryFailureFallsBack ==
    (pc = "agent_returned" /\ PrimaryFailed(call_args[1])) =>
        LET a == call_args[1]
            r == call_result[1]
        IN  /\ r.trace = <<"zentropi.label", "frontier.chat">>
            /\ r.raised <=> a.frontier.status = "raise"
            /\ ~r.raised => FrontierAnswerReturned(a, r)

\* The Policy agent's primary call raised and the frontier answer came back.
C12_Witness ==
    /\ pc = "agent_returned"
    /\ call_args[1].agent = "policy"
    /\ call_args[1].zentropi_configured
    /\ call_args[1].slm.status = "raise"
    /\ ~call_result[1].raised
    /\ call_result[1].value.model_used = "azure_openai"

\* C13: whenever the primary path of the Risk or Policy agent fails, the
\* AgentExecutionDetail the agent returns records the failure reason.
C13_PrimaryFailureRecorded ==
    (pc = "agent_returned" /\ PrimaryFailed(call_args[1]) /\ ~call_result[1].raised)
        => call_result[1].detail.error # None

\* C14: under an active configuration version the agents' fallback gates
\* compare against the overridden threshold, the one the orchestrator's
\* routing gate and escalation rules use.
C14_AgentsUseOverriddenThreshold ==
    pc = "agent_returned" =>
        LET a == call_args[1]
        IN  FrontierCalls(call_result[1]) = 1
                <=> (PrimaryAbsent(a) \/ a.slm.confidence < OverriddenThreshold(a))

\* ------------------------------------------------------------------------
\* Properties of external enrichment (section 4.2)
\* ------------------------------------------------------------------------

\* The Evidence the enrichment starts from: the one given, or the empty one
\* it builds when none is given.
PriorEvidence ==
    IF evidence = None
    THEN [supporting |-> <<>>, contradicting |-> <<>>, contextual |-> <<>>,
          evidence_confidence |-> 0, conflicts_present |-> FALSE, evidence_gap |-> TRUE]
    ELSE evidence[1]

Enriched == call_result[1].evidence

NewSupporting == Len(Enriched.supporting) - Len(PriorEvidence.supporting)

NewContradicting == Len(Enriched.contradicting) - Len(PriorEvidence.contradicting)

NewContextual == Len(Enriched.contextual) - Len(PriorEvidence.contextual)

\* The snippets the searches of this call returned.
Snippets ==
    IF claims = <<>> \/ ~call_args[1].allow_external_search THEN <<>>
    ELSE call_args[1].results

SnippetCount(P(_)) == Cardinality({i \in 1..Len(Snippets) : P(Snippets[i])})

ClassificationFailed(r) ==
    r.answer.status = "raise" \/ r.answer.words \cap {"support", "contradict"} = {}

Credible(item) ==
    item.source_type \in
        {"authoritative", "high_credibility", "scientific", "fact_check", "internal"}

AnyCredible(items) == \E i \in 1..Len(items) : Credible(items[i])

\* C15: enrichment never lowers evidence_confidence, and when a new item is
\* supporting or contradicting the confidence is max(prior, 0.7 * supporting
\* / (supporting + contradicting)) over the new items.
C15_ConfidenceMonotonic ==
    pc = "enriched" =>
        /\ Enriched.evidence_confidence >= PriorEvidence.evidence_confidence
        /\ NewSupporting + NewContradicting > 0 =>
               Enriched.evidence_confidence =
                   Max(PriorEvidence.evidence_confidence,
                       (70 * NewSupporting) \div (NewSupporting + NewContradicting))

\* Prior confidence 0.8, one new supporting and one new contradicting item:
\* the new ratio is lower and the prior confidence is kept.
C15_Witness ==
    /\ pc = "enriched"
    /\ PriorEvidence.evidence_confidence = 80
    /\ NewSupporting = 1
    /\ NewContradicting = 1
    /\ Enriched.evidence_confidence = 80

\* C16: in every Evidence returned by analyze conflicts_present is true if
\* and only if contradicting is non-empty, internal and added items alike.
C16_ConflictsIffContradicting ==
    (result # None /\ result[1].evidence # None) =>
        (result[1].evidence[1].conflicts_present
            <=> result[1].evidence[1].contradicting # <<>>)

\* C17: after enrichment evidence_gap is false if some item of any of the
\* three lists has a credible source_type, and true otherwise.
C17_GapIffNoCredibleItem ==
    (pc = "enriched" /\ ~call_result[1].raised) =>
        (Enriched.evidence_gap
            <=> ~AnyCredible(Enriched.supporting \o Enriched.contradicting
                             \o Enriched.contextual))

\* C19: with no search result, or with external search disabled, enrichment
\* leaves the lists, evidence_confidence, conflicts_present and evidence_gap
\* of the given Evidence unchanged and writes nothing to the index.
C19_NoResultsNoChange ==
    (pc = "enriched" /\ evidence # None /\ ~call_result[1].raised
     /\ (~call_args[1].allow_external_search \/ call_args[1].results = <<>>)) =>
        /\ Enriched.supporting = evidence[1].supporting
        /\ Enriched.contradicting = evidence[1].contradicting
        /\ Enriched.contextual = evidence[1].contextual
        /\ Enriched.evidence_confidence = evidence[1].evidence_confidence
        /\ Enriched.conflicts_present = evidence[1].conflicts_present
        /\ Enriched.evidence_gap = evidence[1].evidence_gap
        /\ call_result[1].writes = 0
        /\ call_result[1].index = index

\* C20: a snippet whose classification fails is filed as contextual, the
\* other snippets are classified by their own answers, and no classification
\* failure makes the enrichment raise.
C20_ClassificationFailureIsContextual ==
    (pc = "enriched" /\ call_args[1].search_status = "ok") =>
        /\ NewContextual = SnippetCount(ClassificationFailed)
        /\ NewSupporting =
               SnippetCount(LAMBDA r : r.answer.status = "ok" /\ "support" \in r.answer.words)
        /\ NewContradicting =
               SnippetCount(LAMBDA r : /\ r.answer.status = "ok"
                                       /\ "support" \notin r.answer.words
                                       /\ "contradict" \in r.answer.words)
        /\ call_result[1].raised =>
               (call_args[1].allow_external_enrichment /\ call_args[1].add = "error")

\* Two snippets: the classifier raises on the first and calls the second
\* supporting.
C20_Witness ==
    /\ pc = "enriched"
    /\ Len(Snippets) = 2
    /\ Snippets[1].answer.status = "raise"
    /\ Snippets[2].answer.words = {"support"}
    /\ NewContextual = 1
    /\ NewSupporting = 1
    /\ ~call_result[1].raised

\* ------------------------------------------------------------------------
\* Properties of the novelty test (section 4.1, step 3b)
\* ------------------------------------------------------------------------

CallTo(callee) == calls[CHOOSE i \in 1..Len(calls) : calls[i].callee = callee]

\* C18: on the full pipeline the enrichment is invoked if and only if the
\* maximum similarity is below novelty_similarity_threshold or the retrieved
\* evidence has neither supporting nor contradicting items; an empty index,
\* an empty claim list or no match for any claim counts as similarity 0.0
\* and triggers the enrichment.
C18_EnrichIffNovelOrNoEvidence ==
    (pc \in {"factuality", "policy", "decide", "done"}
     /\ CallCount("_max_claim_similarity") = 1) =>
        LET sim == CallTo("_max_claim_similarity")
            retrieved == CallTo("EvidenceAgent.process").returned
            no_match == \A i \in 1..Len(sim.scores) : sim.scores[i] = None
        IN  /\ CallCount("_attach_external_context") = 1
                <=> \/ sim.returned < Threshold("novelty_similarity_threshold")
                    \/ (retrieved.supporting = <<>> /\ retrieved.contradicting = <<>>)
            /\ (sim.documents = 0 \/ claims = <<>> \/ no_match) =>
                   /\ sim.returned = 0
                   /\ CallCount("_attach_external_context") = 1

\* The store holds documents and retrieval found a supporting item, but no
\* claim has a match in the similarity lookup.
C18_Witness ==
    /\ pc = "factuality"
    /\ CallCount("_max_claim_similarity") = 1
    /\ CallTo("_max_claim_similarity").documents > 0
    /\ claims # <<>>
    /\ CallTo("_max_claim_similarity").scores = <<None>>
    /\ CallTo("EvidenceAgent.process").returned.supporting # <<>>
    /\ CallCount("_attach_external_context") = 1

\* ------------------------------------------------------------------------
\* Properties of enrichment persistence (section 4.2, step 5)
\* ------------------------------------------------------------------------

\* C21: the index write is attempted at most once per enrichment, only with
\* persistence enabled and a new item at hand, and its failure (indexing
\* disabled, embedding failure, store error) does not make the enrichment
\* fail.
C21_WriteIsBestEffort ==
    (pc = "enriched"
     /\ ~(claims # <<>> /\ call_args[1].allow_external_search
          /\ call_args[1].search_status = "raise")) =>
        /\ call_result[1].writes <= 1
        /\ call_result[1].writes = 1 =>
               /\ call_args[1].allow_external_enrichment
               /\ NewSupporting + NewContradicting + NewContextual > 0
        /\ ~call_result[1].raised

\* ------------------------------------------------------------------------
\* Properties of the audit trail of the fast path and of the Decision fields
\* ------------------------------------------------------------------------

\* The gate that sent a run to the fast path.
SkipGate(risk) == IF risk.tier = "Low" THEN "low risk" ELSE "low confidence"

\* The gates a skip reason names.
GatesNamed(reason) ==
    IF reason = "Skipped due to low risk or low confidence routing decision."
    THEN {"low risk", "low confidence"}
    ELSE {g \in {"low risk", "low confidence"} : reason = g}

\* C22: on the fast path the skipped Evidence and Factuality entries carry a
\* reason that tells which gate caused the skip: it names the low-risk gate
\* when the tier is Low and the low-confidence gate otherwise, never both.
C22_SkipReasonTellsGate ==
    (result # None /\ ~RoutedToFullPipeline(result[1].risk_assessment)) =>
        \A i \in {3, 4} :
            GatesNamed(result[1].agent_executions[i].user_prompt)
                = {SkipGate(result[1].risk_assessment)}

\* C23 as stated: for every Decision of _make_decision, confidence is the
\* policy confidence, escalation_reason is null exactly for Allow, and for
\* every other action it equals the rationale.
C23_ReasonIsRationale ==
    pc \in {"decided", "checked"} =>
        LET d == decision[1]
        IN  /\ policy_interpretation # None =>
                   d.confidence = policy_interpretation[1].policy_confidence
            /\ d.escalation_reason = None <=> d.action = "Allow"
            /\ d.action # "Allow" => d.escalation_reason = Some(d.rationale)

\* C23 amended: the same for every Decision made with a PolicyInterpretation
\* present; without one the reason is "Policy interpretation unavailable"
\* and differs from the rationale.
C23_ReasonIsRationaleWithPolicy ==
    (pc \in {"decided", "checked"} /\ policy_interpretation # None) =>
        LET d == decision[1]
        IN  /\ d.confidence = policy_interpretation[1].policy_confidence
            /\ d.escalation_reason = None <=> d.action = "Allow"
            /\ d.action # "Allow" => d.escalation_reason = Some(d.rationale)

\* Low tier, policy confidence 0.69: Label / Downrank with the rationale as
\* escalation reason.
C23_Witness ==
    /\ pc = "decided"
    /\ policy_interpretation # None
    /\ risk_assessment[1].tier = "Low"
    /\ policy_interpretation[1].policy_confidence = 69
    /\ decision[1].action = "Label / Downrank"
    /\ decision[1].confidence = 69
    /\ decision[1].escalation_reason = Some(decision[1].rationale)

C30_ConflictIsRecomputed ==
    (pc = "agent_returned" /\ call_args[1].agent = "policy" /\ ~call_result[1].raised) =>
        LET response == call_result[1].value
        IN  /\ response.conflict_detected
                <=> (response.violation = "Yes" /\ response.allowed_contexts # <<>>)
            /\ response.route_reason = "slm_primary" => ~response.conflict_detected

\* The frontier model reports a conflict on a Yes answer with no allowed
\* context; the returned interpretation has none.
C30_Witness ==
    /\ pc = "agent_returned"
    /\ call_args[1].agent = "policy"
    /\ ~call_result[1].raised
    /\ call_result[1].value.route_reason = "fallback_frontier"
    /\ call_args[1].frontier.conflict_detected
    /\ call_result[1].value.violation = "Yes"
    /\ call_result[1].value.allowed_contexts = <<>>
    /\ ~call_result[1].value.conflict_detected

\* ------------------------------------------------------------------------
\* EvidenceAgent.process and FactualityAgent.process on their own
\* ------------------------------------------------------------------------

\* The Evidence a caller may hand to FactualityAgent.process.
FactualityEvidenceSamples ==
    EnrichPriorSamples \cup
    {Some(Evidence(<<>>, <<>>, <<EvidenceItem("web", "external", 60)>>, 0, FALSE, FALSE,
                   None))}

\* Arguments of one call, with what the vector store or the frontier model
\* answers during it.
RetrievalCalls ==
    {[agent |-> "evidence", claims |-> c, search |-> s] :
        c \in ClaimLists, s \in VectorSearches} \cup
    UNION {{[agent |-> "factuality", claims |-> c, evidence |-> e, llm |-> l] :
               e \in FactualityEvidenceSamples, l \in FactualityCompletions(c)} :
           c \in ClaimLists}

InitRetrieval ==
    /\ versions \in VersionSamples
    /\ index = <<"kb">>
    /\ pc = "retrieval_arguments"
    /\ claims = <<>>
    /\ claim_confidence = 0
    /\ risk_assessment = None
    /\ evidence = None
    /\ factuality_assessments = <<>>
    /\ policy_interpretation = None
    /\ agent_executions = <<>>
    /\ calls = <<>>
    /\ decision = None
    /\ requires_human_review = None
    /\ result = None
    /\ raised_in = None
    /\ call_args \in {Some(a) : a \in RetrievalCalls}
    /\ call_result = None
    /\ decision_records = <<>>
    /\ review_records = <<>>
    /\ requests = <<>>
    /\ activated = InitiallyActivated(versions)

EvidenceProcess ==
    /\ pc = "retrieval_arguments"
    /\ call_args[1].agent = "evidence"
    /\ call_result' = Some(EvidenceAgent_process(versions, call_args[1].claims,
                                                 call_args[1].search))
    /\ pc' = "retrieval_returned"
    /\ UNCHANGED <<call_args, versions, governance, index, claims, claim_confidence, risk_assessment,
                   evidence, factuality_assessments, policy_interpretation,
                   agent_executions, calls, decision, requires_human_review, result,
                   raised_in>>

FactualityProcess ==
    /\ pc = "retrieval_arguments"
    /\ call_args[1].agent = "factuality"
    /\ call_result' = Some(FactualityAgent_process(call_args[1].claims,
                                                   call_args[1].evidence,
                                                   call_args[1].llm))
    /\ pc' = "retrieval_returned"
    /\ UNCHANGED <<call_args, versions, governance, index, claims, claim_confidence, risk_assessment,
                   evidence, factuality_assessments, policy_interpretation,
                   agent_executions, calls, decision, requires_human_review, result,
                   raised_in>>

NextRetrieval ==
    \/ EvidenceProcess
    \/ FactualityProcess

SpecRetrieval == InitRetrieval /\ [][NextRetrieval]_vars

\* Evidence is present, has no gap and holds a supporting or contradicting
\* item.
SufficientEvidence(e) ==
    /\ e # None
    /\ ~e[1].evidence_gap
    /\ (e[1].supporting # <<>> \/ e[1].contradicting # <<>>)

\* C24: FactualityAgent.process calls the LLM iff evidence is present, has no
\* gap and holds a supporting or contradicting item; otherwise it returns,
\* with no LLM call and without raising, one assessment per claim, each
\* Uncertain / Disputed with confidence 0.0, and a detail with route_reason
\* "insufficient_evidence".
C24_AssessOnlyWithEvidence ==
    (pc = "retrieval_returned" /\ call_args[1].agent = "factuality") =>
        LET a == call_args[1]
            r == call_result[1]
        IN  /\ FrontierCalls(r) = 1 <=> SufficientEvidence(a.evidence)
            /\ FrontierCalls(r) <= 1
            /\ ~SufficientEvidence(a.evidence) =>
                   /\ ~r.raised
                   /\ Len(r.value) = Len(a.claims)
                   /\ \A i \in 1..Len(a.claims) :
                          /\ r.value[i].claim_text = a.claims[i].text
                          /\ r.value[i].status = "Uncertain / Disputed"
                          /\ r.value[i].confidence = 0
                   /\ r.detail.route_reason = Some("insufficient_evidence")

\* Evidence with a supporting item and an evidence gap, one claim, an LLM
\* that would raise: one conservative assessment comes back.
C24_Witness ==
    /\ pc = "retrieval_returned"
    /\ call_args[1].agent = "factuality"
    /\ call_args[1].evidence # None
    /\ call_args[1].evidence[1].evidence_gap
    /\ call_args[1].evidence[1].supporting # <<>>
    /\ call_args[1].llm.status = "raise"
    /\ Len(call_args[1].claims) = 1
    /\ ~call_result[1].raised
    /\ Len(call_result[1].value) = 1
    /\ call_result[1].value[1].status = "Uncertain / Disputed"

\* C25: EvidenceAgent.process with an empty claim list performs no retrieval
\* and returns an Evidence with empty supporting and contradicting lists,
\* evidence_confidence 0.0 and conflicts_present false, with a detail whose
\* status is "skipped".
C25_EmptyClaimsSkipRetrieval ==
    (pc = "retrieval_returned" /\ call_args[1].agent = "evidence"
     /\ call_args[1].claims = <<>>) =>
        LET r == call_result[1]
        IN  /\ r.trace = <<>>
            /\ ~r.raised
            /\ r.value.supporting = <<>>
            /\ r.value.contradicting = <<>>
            /\ r.value.evidence_confidence = 0
            /\ ~r.value.conflicts_present
            /\ r.detail.status = "skipped"

\* No claims and a vector store whose search would raise: the call returns.
C25_Witness ==
    /\ pc = "retrieval_returned"
    /\ call_args[1].agent = "evidence"
    /\ call_args[1].claims = <<>>
    /\ call_args[1].search.status = "raise"
    /\ ~call_result[1].raised
    /\ call_result[1].detail.status = "skipped"

\* ------------------------------------------------------------------------
\* The configuration store on its own (src/governance/system_config_store.py)
\* ------------------------------------------------------------------------

MaxVersions == 3

\* The variables of one analysis, which the governance calls leave alone.
analysis ==
    <<index, claims, claim_confidence, risk_assessment, evidence,
      factuality_assessments, policy_interpretation, agent_executions, calls,
      decision, requires_human_review, result, raised_in>>

ThresholdUpdateSamples ==
    {[risk_confidence_threshold |-> 50], [policy_confidence_threshold |-> 80]}

InitConfig ==
    /\ versions \in VersionSamples
    /\ index = <<>>
    /\ pc = "config"
    /\ claims = <<>>
    /\ claim_confidence = 0
    /\ risk_assessment = None
    /\ evidence = None
    /\ factuality_assessments = <<>>
    /\ policy_interpretation = None
    /\ agent_executions = <<>>
    /\ calls = <<>>
    /\ decision = None
    /\ requires_human_review = None
    /\ result = None
    /\ raised_in = None
    /\ call_args = None
    /\ call_result = None
    /\ decision_records = <<>>
    /\ review_records = <<>>
    /\ requests = <<>>
    /\ activated = InitiallyActivated(versions)

CreateConfigVersion(threshold_updates, activate) ==
    /\ pc = "config"
    /\ call_args' = Some([op |-> "create_config_version",
                          threshold_updates |-> threshold_updates,
                          activate |-> activate])
    /\ Len(versions) < MaxVersions
    /\ LET r == create_config_version(versions, threshold_updates, activate)
       IN  /\ versions' = r.versions
           /\ call_result' = Some(r.returned)
           /\ activated' = IF activate THEN Some(r.returned) ELSE activated
    /\ UNCHANGED <<pc, analysis, decision_records, review_records, requests>>

ActivateConfigVersion(version_id) ==
    /\ pc = "config"
    /\ call_args' = Some([op |-> "activate_config_version", version_id |-> version_id])
    /\ LET r == activate_config_version(versions, version_id)
       IN  /\ versions' = r.versions
           /\ call_result' = Some(r.returned)
           /\ activated' = IF r.returned THEN Some(version_id) ELSE activated
    /\ UNCHANGED <<pc, analysis, decision_records, review_records, requests>>

NextConfig ==
    \/ \E u \in ThresholdUpdateSamples, a \in BOOLEAN : CreateConfigVersion(u, a)
    \/ \E id \in 1..(MaxVersions + 1) : ActivateConfigVersion(id)

SpecConfig == InitConfig /\ [][NextConfig]_vars

ActiveVersions == {i \in Ids(versions) : versions[i].active}

\* C28: after any sequence of create_config_version and
\* activate_config_version calls at most one version is active, and it is the
\* one activated last; activate_config_version with an unknown id returns
\* false and leaves the table unchanged.
C28_OneActiveVersion ==
    /\ [](/\ Cardinality(ActiveVersions) <= 1
          /\ ActiveVersions = (IF activated = None THEN {} ELSE {activated[1]})
          /\ get_active_config_version(versions) =
                 (IF activated = None THEN None ELSE Some(versions[activated[1]])))
    /\ [][\A id \in 1..(MaxVersions + 1) :
              (ActivateConfigVersion(id) /\ id \notin Ids(versions)) =>
                  (call_result' = Some(FALSE) /\ versions' = versions)]_vars

\* Three versions, the second one activated after the third was created
\* active.
C28_Witness ==
    /\ pc = "config"
    /\ Len(versions) = 3
    /\ call_args = Some([op |-> "activate_config_version", version_id |-> 2])
    /\ call_result = Some(TRUE)
    /\ versions[2].active
    /\ ~versions[3].active

\* ------------------------------------------------------------------------
\* The review log: its calls one after the other, and under concurrent
\* requests (src/governance/logger.py, src/api/routes/content.py,
\* streamlit_app.py)
\* ------------------------------------------------------------------------

MaxDecisions == 2

\* The configuration changes the reviewers of one run may have accepted.
MaxAcceptedChanges == 1

AcceptedChangeSamples ==
    {None,
     Some([threshold_updates |-> <<>>, rationale |-> ""]),
     Some([threshold_updates |-> [risk_confidence_threshold |-> 50],
           rationale |-> "lower the gate"])}

\* The value a call returned, as the caller's page shows it.
Shown(returned) == IF returned THEN "True" ELSE "False"

InitReviews ==
    /\ versions = <<>>
    /\ index = <<>>
    /\ pc = "serving"
    /\ claims = <<>>
    /\ claim_confidence = 0
    /\ risk_assessment = None
    /\ evidence = None
    /\ factuality_assessments = <<>>
    /\ policy_interpretation = None
    /\ agent_executions = <<>>
    /\ calls = <<>>
    /\ decision = None
    /\ requires_human_review = None
    /\ result = None
    /\ raised_in = None
    /\ call_args = None
    /\ call_result = None
    /\ decision_records = <<>>
    /\ review_records = <<>>
    /\ requests = <<>>
    /\ activated = None

\* log_decision called on its own.
LogDecisionCall(decision_requires_human_review) ==
    /\ pc = "serving"
    /\ requests = <<>>
    /\ Len(decision_records) < MaxDecisions
    /\ LET logged == log_decision(decision_records, review_records,
                                  decision_requires_human_review)
       IN  /\ decision_records' = logged.decision_records
           /\ review_records' = logged.review_records
    /\ UNCHANGED <<pc, analysis, versions, activated, requests, call_args,
                   call_result>>

\* analyze_content up to the return of log_decision: the analysis gave a
\* Decision with the given requires_human_review. The requests are numbered
\* in the order in which their log_decision runs.
LogDecision(r, decision_requires_human_review) ==
    /\ pc = "serving"
    /\ requests # <<>>
    /\ requests[r].pc = "received"
    /\ \A q \in 1..(r - 1) : requests[q].pc # "received"
    /\ LET logged == log_decision(decision_records, review_records,
                                  decision_requires_human_review)
       IN  /\ decision_records' = logged.decision_records
           /\ review_records' = logged.review_records
           /\ requests' = [requests EXCEPT
                  ![r] = [pc |-> "logged",
                          requires_human_review |-> decision_requires_human_review,
                          decision_id |-> Some(logged.returned),
                          review_request_id |-> None]]
    /\ UNCHANGED <<pc, analysis, versions, activated, call_args, call_result>>

\* analyze_content from the test of requires_human_review to its return.
LookupReview(r) ==
    /\ pc = "serving"
    /\ requests # <<>>
    /\ requests[r].pc = "logged"
    /\ LET pending_reviews == list_pending_reviews(review_records)
       IN  requests' = [requests EXCEPT
               ![r].pc = "responded",
               ![r].review_request_id =
                   IF requests[r].requires_human_review /\ pending_reviews # <<>>
                   THEN Some(pending_reviews[Len(pending_reviews)])
                   ELSE None]
    /\ UNCHANGED <<pc, analysis, versions, activated, call_args, call_result,
                   decision_records, review_records>>

EnqueueReview(decision_id) ==
    /\ pc = "serving"
    /\ LET r == enqueue_review_for_decision(decision_records, review_records,
                                            decision_id)
       IN  /\ decision_records' = r.decision_records
           /\ review_records' = r.review_records
           /\ call_result' = Some(r.returned)
    /\ UNCHANGED <<pc, analysis, versions, activated, requests, call_args>>

SubmitHumanDecision(review_id, accepted_change) ==
    /\ pc = "serving"
    /\ (accepted_change # None /\ has_meaningful_updates(accepted_change[1])) =>
           Len(versions) < MaxAcceptedChanges
    /\ LET r == submit_human_decision(review_records, versions, review_id,
                                      "Allow", accepted_change)
       IN  /\ review_records' = r.review_records
           /\ versions' = r.versions
           /\ activated' = IF r.versions # versions THEN Some(Len(r.versions))
                           ELSE activated
           /\ call_result' = Some(Shown(r.returned))
    /\ UNCHANGED <<pc, analysis, decision_records, requests, call_args>>

ResetReview(review_id, clear_human_decision) ==
    /\ pc = "serving"
    /\ LET r == reset_review_to_pending(review_records, review_id,
                                        clear_human_decision)
       IN  /\ review_records' = r.review_records
           /\ call_result' = Some(Shown(r.returned))
    /\ UNCHANGED <<pc, analysis, versions, activated, decision_records, requests,
                   call_args>>

NextReviews ==
    \/ \E h \in BOOLEAN : LogDecisionCall(h)
    \/ \E d \in 1..(MaxDecisions + 1) : EnqueueReview(d)
    \/ \E id \in 1..(MaxDecisions + 1), c \in AcceptedChangeSamples :
           SubmitHumanDecision(id, c)
    \/ \E id \in 1..(MaxDecisions + 1) : ResetReview(id, TRUE)

SpecReviews == InitReviews /\ [][NextReviews]_vars

InitRequests ==
    /\ versions = <<>>
    /\ index = <<>>
    /\ pc = "serving"
    /\ claims = <<>>
    /\ claim_confidence = 0
    /\ risk_assessment = None
    /\ evidence = None
    /\ factuality_assessments = <<>>
    /\ policy_interpretation = None
    /\ agent_executions = <<>>
    /\ calls = <<>>
    /\ decision = None
    /\ requires_human_review = None
    /\ result = None
    /\ raised_in = None
    /\ call_args = None
    /\ call_result = None
    /\ decision_records = <<>>
    /\ review_records = <<>>
    /\ requests = [r \in 1..MaxDecisions |->
                      [pc |-> "received", requires_human_review |-> FALSE,
                       decision_id |-> None, review_request_id |-> None]]
    /\ activated = None

NextRequests ==
    \/ \E r \in 1..MaxDecisions, h \in BOOLEAN : LogDecision(r, h)
    \/ \E r \in 1..MaxDecisions : LookupReview(r)
    \/ \E d \in 1..(MaxDecisions + 1) : EnqueueReview(d)
    \/ \E id \in 1..(MaxDecisions + 1), c \in AcceptedChangeSamples :
           SubmitHumanDecision(id, c)
    \/ \E id \in 1..(MaxDecisions + 1) : ResetReview(id, TRUE)

SpecRequests == InitRequests /\ [][NextRequests]_vars

ReviewsOf(decision_id) ==
    {i \in Ids(review_records) : review_records[i].decision_id = decision_id}

\* C27: log_decision creates a pending review record exactly when the logged
\* Decision requires human review; after any sequence of log_decision,
\* enqueue_review_for_decision, submit_human_decision and
\* reset_review_to_pending calls every decision record has at most one
\* review record; enqueue_review_for_decision on a decision whose review is
\* pending returns "already_pending" and changes nothing.
C27_OneReviewPerDecision ==
    /\ [](\A d \in Ids(decision_records) : Cardinality(ReviewsOf(d)) <= 1)
    /\ [][/\ \A h \in BOOLEAN :
                 LogDecisionCall(h) =>
                     IF h
                     THEN review_records' =
                              Append(review_records,
                                     ReviewRecord(Len(decision_records'), "pending",
                                                  FALSE, None))
                     ELSE review_records' = review_records
          /\ \A d \in Ids(decision_records) :
                 (/\ EnqueueReview(d)
                  /\ \E i \in ReviewsOf(d) : review_records[i].status = "pending") =>
                     /\ call_result' = Some("already_pending")
                     /\ UNCHANGED <<decision_records, review_records, versions>>]_vars

\* Two decisions logged; the review of the first one was enqueued by hand,
\* and one more enqueue was answered "already_pending".
C27_Witness ==
    /\ pc = "serving"
    /\ requests = <<>>
    /\ call_result = Some("already_pending")
    /\ Len(decision_records) = 2
    /\ Cardinality(ReviewsOf(1)) = 1
    /\ \E i \in ReviewsOf(1) :
           /\ review_records[i].manual_override
           /\ review_records[i].status = "pending"

\* C29: when a request handled by analyze_content gives a Decision that
\* requires human review, the review_request_id it returns is the id of the
\* review record of its own decision, whatever other analyses and manual
\* enqueues do between its log_decision and its lookup.
C29_OwnReviewReturned ==
    (pc = "serving" /\ requests # <<>>) =>
        \A r \in 1..MaxDecisions :
            (requests[r].pc = "responded" /\ requests[r].requires_human_review) =>
                /\ requests[r].review_request_id # None
                /\ review_records[requests[r].review_request_id[1]].decision_id
                       = requests[r].decision_id[1]

=============================================================================
